---- MODULE Spec2Model ----
(***************************************************************************)
(* XHR span-correlation engine of hyperdx-otel-react-native.               *)
(*                                                                         *)
(* Two implementations live side by side in the instrumentation file:      *)
(*   - the class XMLHttpRequestInstrumentation (patchOpen / patchSend,     *)
(*     deferred finalization through setTimeout, resource correlation);    *)
(*   - the closure instrumentXHR (open / send / setRequestHeader patched   *)
(*     on the prototype, synchronous finalization, header/body capture).   *)
(* config.impl selects which one is installed.                             *)
(*                                                                         *)
(* The transport (the XMLHttpRequest object itself), the performance       *)
(* timeline, the timer queue and the promise queue are the environment.    *)
(* A handle is opened, then sent, then receives terminal-style events in   *)
(* any number and order; a handle may be re-opened at any moment.          *)
(***************************************************************************)
EXTENDS Integers, Sequences, FiniteSets, TLC

\* ------------------------------------------------------------------ bounds
\* calls of open in one behaviour
MaxOpens == 2
\* terminal-style events the transport delivers after one send
MaxEvents == 2
\* resource-timing entries recorded in one behaviour
MaxEntries == 2
MaxInits == 3
\* calls of HyperDXRum.finishAppStart in a behaviour
MaxFinishes == 2

Handles == {"h1", "h2"}

\* ------------------------------------------------------------- vocabulary
\* undefined, where a span (spans are numbered from 1), a timestamp (the clock
\* starts at 1), a status or a resource-timing entry (numbered from 1) is meant
NoReq == 0
NoTime == 0
NoStatus == 0 - 1
NoEntry == 0

\* the events the transport can dispatch when a request terminates
EventKinds == {"load", "error", "abort", "timeout", "readystatechange"}

\* enum EventNames
EVENT_ABORT == "abort"
EVENT_ERROR == "error"
EVENT_LOAD == "loaded"
EVENT_READY_STATE_CHANGE == "readystatechange"
EVENT_TIMEOUT == "timeout"
METHOD_OPEN == "open"
METHOD_SEND == "send"
\* the names a terminal event is recorded under
TerminalNames ==
    {EVENT_ABORT, EVENT_ERROR, EVENT_LOAD, EVENT_READY_STATE_CHANGE, EVENT_TIMEOUT}

\* xhr.status values the transport reports (0: none yet)
Statuses == {0, 200, 298, 299, 404}

\* xhr.statusText, which the transport sets together with xhr.status
NoStatusText == "undefined"
StatusText(status) ==
    CASE status = 200 -> "OK"
      [] status = 404 -> "Not Found"
      [] OTHER -> ""

UrlApi == "https://api.example.com/x"
UrlOther == "https://other.com"
UrlIgnored == "https://ignored.io/ping"
Urls == {UrlApi, UrlOther, UrlIgnored}

\* parseUrl(url).href: the serialised URL; an empty path becomes "/"
Href(url) == IF url = UrlOther THEN "https://other.com/" ELSE url

Methods == {"get"}

\* method.toUpperCase()
ToUpperCase(method) == IF method = "get" THEN "GET" ELSE method

\* String.prototype.toLowerCase
ToLowerCase(str) ==
    LET upper == {"A", "B", "C", "D", "E", "F", "G", "H", "I", "J", "K", "L", "M",
                  "N", "O", "P", "Q", "R", "S", "T", "U", "V", "W", "X", "Y", "Z"}
        RECURSIVE From(_)
        From(k) ==
            IF k > Len(str)
            THEN ""
            ELSE LET c == SubSeq(str, k, k)
                     i == CHOOSE i \in 1 .. 26 :
                              SubSeq("ABCDEFGHIJKLMNOPQRSTUVWXYZ", i, i) = c
                 IN  (IF c \in upper THEN SubSeq("abcdefghijklmnopqrstuvwxyz", i, i)
                      ELSE c) \o From(k + 1)
    IN  IF \A k \in 1 .. Len(str) : SubSeq(str, k, k) \notin upper
        THEN str
        ELSE From(1)

\* String.prototype.trim
RECURSIVE Trim(_)
Trim(str) ==
    LET white == {" ", "\t", "\n", "\r"}
    IN  IF str = "" THEN ""
        ELSE IF SubSeq(str, 1, 1) \in white THEN Trim(SubSeq(str, 2, Len(str)))
        ELSE IF SubSeq(str, Len(str), Len(str)) \in white
        THEN Trim(SubSeq(str, 1, Len(str) - 1))
        ELSE str

\* String.prototype.split, for the separators the instrumentation uses: the
\* string '\n' and the pattern /:\s*/ (a colon and the white space after it)
RECURSIVE Split(_, _)
Split(str, separator) ==
    LET white == IF separator = ":\\s*" THEN {" ", "\t", "\n", "\r"} ELSE {}
        at == {i \in 1 .. Len(str) : SubSeq(str, i, i) = SubSeq(separator, 1, 1)}
        i == CHOOSE i \in at : \A j \in at : i <= j
        rest == {j \in i + 1 .. Len(str) + 1 :
                    \A k \in i + 1 .. j - 1 : SubSeq(str, k, k) \in white}
        j == CHOOSE j \in rest : \A k \in rest : k <= j
    IN  IF at = {}
        THEN <<str>>
        ELSE <<SubSeq(str, 1, i - 1)>> \o Split(SubSeq(str, j, Len(str)), separator)

\* An entry of ignoreUrls / propagateTraceHeaderCorsUrls: a string, or a RegExp
\* given by the set of URL strings it matches.
StrEntry(s) == [kind |-> "string", s |-> s, matches |-> {}]
RegEntry(ms) == [kind |-> "regexp", s |-> "", matches |-> ms]

\* /api\.example\.com/
ReApi == RegEntry({UrlApi})
\* urlMatches of @opentelemetry/core: exact equality for a string, a match for a RegExp
UrlMatches(url, entry) ==
    IF entry.kind = "string" THEN url = entry.s ELSE url \in entry.matches

\* isUrlIgnored of @opentelemetry/core
IsUrlIgnored(url, ignoredUrls) ==
    /\ ignoredUrls.kind # "undefined"
    /\ \E i \in DOMAIN ignoredUrls.items : UrlMatches(url, ignoredUrls.items[i])

\* An optional list: undefined, a single entry, or an array
ListUndefined == [kind |-> "undefined", items |-> <<>>]
ListOf(items) == [kind |-> "array", items |-> items]
ListSingle(e) == [kind |-> "single", items |-> <<e>>]

shouldPropagateTraceHeaders(spanUrl, propagateTraceHeaderCorsUrls) ==
    LET propagateTraceHeaderUrls ==
            IF propagateTraceHeaderCorsUrls.kind = "undefined"
            THEN <<>>
            ELSE propagateTraceHeaderCorsUrls.items
    IN  \E i \in DOMAIN propagateTraceHeaderUrls :
            UrlMatches(spanUrl, propagateTraceHeaderUrls[i])


\* ---------------------------------------------------------------- strings
\* A string is given by the text it is a prefix of (gen) and its length, so
\* that taking a prefix is computed and two strings are equal exactly when
\* they have the same characters.
Str(gen, len) == [gen |-> gen, len |-> len]
NoStr == Str("", 0 - 1)

Min(a, b) == IF a < b THEN a ELSE b

\* s.slice(0, n) for n >= 0
Slice0(s, n) == Str(s.gen, Min(s.len, n))

MAX_BODY_LENGTH == 5 * 1024

\* A request body handed to send: typeof, the string itself when it is one,
\* and what JSON.stringify does with it (returns a string, throws, or
\* returns undefined as it does for undefined, a function or a symbol).
BodyString(s) == [type |-> "string", str |-> s, stringify |-> "string"]
BodyObject(json) == [type |-> "object", str |-> json, stringify |-> "string"]
BodyCircular == [type |-> "object", str |-> NoStr, stringify |-> "throws"]
BodyBigInt == [type |-> "bigint", str |-> NoStr, stringify |-> "throws"]
BodyUndefined == [type |-> "undefined", str |-> NoStr, stringify |-> "undefined"]

Bodies ==
    { BodyUndefined,
      BodyCircular,
      BodyObject(Str("{\"a\":1}", 7)),
      BodyString(Str("text", MAX_BODY_LENGTH)),
      BodyString(Str("text", MAX_BODY_LENGTH + 1)) }

PlaceholderOfObject(body) == Str("[object of type object]", 23)

\* '[object of type ' + typeof requestBody + ']'
Placeholder(body) ==
    LET s == "[object of type " \o body.type \o "]"
    IN  Str(s, Len(s))

\* The string `body` of the send handler after the typeof / try / catch:
\* defined is FALSE when JSON.stringify returned undefined.
SerializeBody(requestBody) ==
    IF requestBody.type = "string"
    THEN [defined |-> TRUE, str |-> requestBody.str]
    ELSE IF requestBody.stringify = "string"
         THEN [defined |-> TRUE, str |-> requestBody.str]
         ELSE IF requestBody.stringify = "throws"
              THEN [defined |-> TRUE, str |-> Placeholder(requestBody)]
              ELSE [defined |-> FALSE, str |-> NoStr]

TruncateBodyOffByOne(str) == Slice0(str, MAX_BODY_LENGTH - 1)

\* body.slice(0, MAX_BODY_LENGTH)
TruncateBody(str) == Slice0(str, MAX_BODY_LENGTH)

\* ------------------------------------------------------------------ state
VARIABLES
    config,         \* XhrConfig, the installed implementation, the runtime's capabilities
    hstate,         \* transport: handle -> "unsent" | "opened" | "sent" | "done",
                    \*   or "failed" once a call of send has thrown
    hstatus,        \* transport: handle -> xhr.status
    hblob,          \* transport: handle -> responseType === 'blob'
    hurl,           \* transport: handle -> the URL of its latest open
    hcur,           \* transport: handle -> the span of its latest open (NoReq: none)
    hevents,        \* transport: handle -> terminal-style events since its send
    entries,        \* performance timeline: every entry ever recorded
    now,            \* the clock (hrTime / Date.now), read to the granularity of
                    \*   the performance timeline: it ticks when an entry is recorded
    nextReq,        \* spans started so far
    opens,          \* calls of open so far
    firstEvent,     \* history: span -> the first event the transport delivered for it
    firstStatus,    \* history: span -> xhr.status at the first event dispatched to a
                    \* listener while the handle held the span's RequestState
    wasSent,        \* history: span -> its request was sent
    lastCall,       \* the latest call of a patched method: which, on which handle,
                    \*   with which body (send)
    lastOrig,       \* the original method invocations that call made
    xhrMem,         \* _xhrMem: handle -> XhrMem (NoReq: no entry)
    mem,            \* the XhrMem objects, by the span they carry
    listeners,      \* handle -> its registered completion listeners
    observers,      \* the PerformanceObserver objects created so far
    timers,         \* pending setTimeout callbacks, in firing order
    pending,        \* pending blob decodes (promises), by listener
    spans,          \* the spans started by the tracer
    tasksCount,     \* _tasksCount / TaskCounter
    usedResources,  \* _usedResources
    perf,           \* the global resource-timing buffer (entry ids)
    attributed,     \* history: entry -> the spans it was attributed to
    reqHeaders,     \* handle -> header names set on the request by addHeaders
    sendlog,        \* history: span -> what addHeaders did at its send
    threw,          \* a patched method threw
    rum             \* HyperDXRum, the module state of splunkRum.ts and the
                    \*   globals init writes to

envVars == <<config, rum, hstate, hstatus, hblob, hurl, hcur, hevents, entries, now, nextReq, opens,
             firstEvent, firstStatus, wasSent, lastCall, lastOrig>>

insVars == <<xhrMem, mem, listeners, observers, timers, pending, spans, tasksCount,
             usedResources, perf, attributed, reqHeaders, sendlog, threw>>

vars == <<envVars, insVars>>

Reqs == 1 .. MaxOpens

\* The instrumentation's state as one value, so that a handler is the
\* composition of the functions it calls.
Cur ==
    [ xhrMem |-> xhrMem, mem |-> mem, listeners |-> listeners,
      observers |-> observers, timers |-> timers, pending |-> pending,
      spans |-> spans, tasksCount |-> tasksCount,
      usedResources |-> usedResources, perf |-> perf,
      attributed |-> attributed, reqHeaders |-> reqHeaders,
      sendlog |-> sendlog, threw |-> threw ]

Commit(S) ==
    /\ xhrMem' = S.xhrMem
    /\ mem' = S.mem
    /\ listeners' = S.listeners
    /\ observers' = S.observers
    /\ timers' = S.timers
    /\ pending' = S.pending
    /\ spans' = S.spans
    /\ tasksCount' = S.tasksCount
    /\ usedResources' = S.usedResources
    /\ perf' = S.perf
    /\ attributed' = S.attributed
    /\ reqHeaders' = S.reqHeaders
    /\ sendlog' = S.sendlog
    /\ threw' = S.threw

\* An XhrMem as createSpan stores it: { span, spanUrl }
NewMem(h, url) ==
    [ h |-> h, spanUrl |-> url, sendStartTime |-> NoTime,
      status |-> NoStatus, statusText |-> NoStatusText,
      callbackToRemoveEvents |-> FALSE,
      createdResources |-> 0, entries |-> <<>>,
      teardowns |-> 0 ]

NoMem == NewMem("h1", "")

\* A span: what the instrumentation has called on it.
NewSpan(name) ==
    [ started |-> TRUE, name |-> name, events |-> <<>>, ended |-> 0,
      endTime |-> NoTime, status |-> NoStatus, statusText |-> NoStatusText,
      finalAttrs |-> FALSE,
      network |-> NoEntry, children |-> <<>>,
      reqBody |-> NoStr, respBody |-> FALSE, headerAttrs |-> {},
      late |-> 0 ]

NoSpan == [NewSpan("") EXCEPT !.started = FALSE]

NoSendLog == [injected |-> {}, skipLogged |-> FALSE]

\* ------------------------------------------------------- span operations
\* A call on a span that has ended is counted in `late`.
SpanAddEvent(S, r, name) ==
    [S EXCEPT !.spans[r].events = Append(@, name),
              !.spans[r].late = IF S.spans[r].ended > 0 THEN @ + 1 ELSE @]

SpanEnd(S, r, endTime) ==
    [S EXCEPT !.spans[r].ended = @ + 1,
              !.spans[r].endTime = IF S.spans[r].ended = 0 THEN endTime ELSE @,
              !.spans[r].late = IF S.spans[r].ended > 0 THEN @ + 1 ELSE @]


\* --------------------------------------------------- resource correlation
\* sortResources of @opentelemetry/sdk-trace-web: ascending fetchStart, stable
RECURSIVE InsertByStart(_, _)
InsertByStart(sorted, e) ==
    IF sorted = <<>>
    THEN <<e>>
    ELSE IF entries[e].fetchStart < entries[Head(sorted)].fetchStart
         THEN <<e>> \o sorted
         ELSE <<Head(sorted)>> \o InsertByStart(Tail(sorted), e)

RECURSIVE SortResources(_)
SortResources(rs) ==
    IF rs = <<>>
    THEN <<>>
    ELSE InsertByStart(SortResources(SubSeq(rs, 1, Len(rs) - 1)), rs[Len(rs)])

\* findMainRequest of @opentelemetry/sdk-trace-web: the loop from index i on,
\* with the best candidate and best gap so far (a gap of 0 counts as none)
RECURSIVE FindMainRequest(_, _, _, _, _, _)
FindMainRequest(rs, i, minTime, spanEndTime, mainRequest, bestGap) ==
    IF i > Len(rs)
    THEN mainRequest
    ELSE LET currentGap == spanEndTime - entries[rs[i]].responseEnd
             better == /\ entries[rs[i]].fetchStart >= minTime
                       /\ (bestGap <= 0 \/ currentGap < bestGap)
         IN  IF better
             THEN FindMainRequest(rs, i + 1, minTime, spanEndTime, rs[i], currentGap)
             ELSE FindMainRequest(rs, i + 1, minTime, spanEndTime, mainRequest, bestGap)

\* filterResourcesForSpan of @opentelemetry/sdk-trace-web
FilterResourcesForSpan(spanUrl, startTime, endTime, resources, ignoredResources) ==
    SelectSeq(resources,
        LAMBDA e : /\ entries[e].name = spanUrl
                   /\ entries[e].fetchStart >= startTime
                   /\ entries[e].responseEnd <= endTime
                   /\ e \notin ignoredResources)

\* getResource of @opentelemetry/sdk-trace-web, in a runtime without
\* `location` (every URL is cross-origin)
GetResource(spanUrl, startTime, endTime, resources, ignoredResources) ==
    LET filtered == FilterResourcesForSpan(spanUrl, startTime, endTime,
                                           resources, ignoredResources)
        sorted == SortResources(filtered)
        cors == sorted[1]
        main == FindMainRequest(sorted, 2, entries[cors].responseEnd, endTime,
                                sorted[2], 0 - 1)
    IN  IF Len(filtered) = 0
        THEN [mainRequest |-> NoEntry, corsPreFlightRequest |-> NoEntry]
        ELSE IF Len(filtered) = 1
             THEN [mainRequest |-> filtered[1], corsPreFlightRequest |-> NoEntry]
             ELSE IF entries[main].fetchStart < entries[cors].responseEnd
                  THEN [mainRequest |-> cors, corsPreFlightRequest |-> NoEntry]
                  ELSE [mainRequest |-> main, corsPreFlightRequest |-> cors]

\* otperformance.getEntriesByType('resource'): the global buffer, oldest first
RECURSIVE BufferEntries(_, _)
BufferEntries(buffer, e) ==
    IF e > Len(entries)
    THEN <<>>
    ELSE (IF e \in buffer THEN <<e>> ELSE <<>>) \o BufferEntries(buffer, e + 1)

MarkResourceAsUsedNot(S, resource, r) ==
    [S EXCEPT !.attributed[resource] = @ \cup {r}]

\* _markResourceAsUsed; `attributed` records the span the entry is used for
MarkResourceAsUsed(S, resource, r) ==
    [S EXCEPT !.usedResources = @ \cup {resource},
              !.attributed[resource] = @ \cup {r}]

AddChildSpanLeftOpen(S, r, corsPreFlightRequest) ==
    [S EXCEPT !.spans[r].children =
                  Append(@, [entry |-> corsPreFlightRequest, ended |-> 0,
                             parentEnded |-> S.spans[r].ended])]

\* _addChildSpan: start 'CORS Preflight' under the span, end it at once
AddChildSpan(S, r, corsPreFlightRequest) ==
    [S EXCEPT !.spans[r].children =
                  Append(@, [entry |-> corsPreFlightRequest, ended |-> 1,
                             parentEnded |-> S.spans[r].ended])]

\* addSpanNetworkEvents(span, mainRequest)
AddSpanNetworkEvents(S, r, mainRequest) ==
    [S EXCEPT !.spans[r].network = mainRequest,
              !.spans[r].late = IF S.spans[r].ended > 0 THEN @ + 1 ELSE @]

\* _findResourceAndAddNetworkEvents(xhrMem, span, spanUrl, startTime, endTime)
FindResourceAndAddNetworkEvents(S, r, endTime) ==
    LET xm == S.mem[r]
        resources == IF Len(xm.entries) = 0
                     THEN BufferEntries(S.perf, 1)
                     ELSE xm.entries
        resource == GetResource(Href(xm.spanUrl), xm.sendStartTime, endTime,
                                resources, S.usedResources)
        S1 == MarkResourceAsUsed(S, resource.mainRequest, r)
        S2 == IF resource.corsPreFlightRequest # NoEntry
              THEN MarkResourceAsUsed(
                       AddChildSpan(S1, r, resource.corsPreFlightRequest),
                       resource.corsPreFlightRequest, r)
              ELSE S1
    IN  IF xm.sendStartTime = NoTime \/ xm.createdResources = 0
        THEN S
        ELSE IF resource.mainRequest # NoEntry
             THEN AddSpanNetworkEvents(S2, r, resource.mainRequest)
             ELSE S

\* XMLHttpRequestInstrumentation._clearResources
ClearResources(S) ==
    IF S.tasksCount = 0 /\ config.clearTimingResources
    THEN [S EXCEPT !.perf = {}, !.xhrMem = [h \in Handles |-> NoReq],
                   !.usedResources = {}]
    ELSE S


\* ------------------------------------------ header propagation (both impls)
\* _addHeaders / addHeaders: inject the propagator's headers when the parsed
\* URL passes the allow-list, log the skip when there was something to skip.
\* r is the span of the XhrMem being sent.
AddHeaders(S, h, r, spanUrl) ==
    LET url == Href(spanUrl)
        headers == config.propagator
    IN  IF ~shouldPropagateTraceHeaders(url, config.propagateTraceHeaderCorsUrls)
        THEN [S EXCEPT !.sendlog[r].skipLogged = (headers # {})]
        ELSE [S EXCEPT !.reqHeaders[h] = @ \cup headers,
                       !.sendlog[r].injected = @ \cup headers]

\* ------------------------------------- class XMLHttpRequestInstrumentation
\* unregister(xhr): remove the five listeners, clear the callback of the
\* XhrMem now registered for the handle
Unregister(S, h) ==
    LET S1 == [S EXCEPT !.listeners[h] = {}]
        cur == S.xhrMem[h]
    IN  IF cur # NoReq
        THEN [S1 EXCEPT !.mem[cur].callbackToRemoveEvents = FALSE]
        ELSE S1

\* xhrMem.callbackToRemoveEvents as patchSend sets it for the XhrMem of span r
CallbackToRemoveEvents(S, r) ==
    LET S0 == Unregister(S, S.mem[r].h)
        S1 == [S0 EXCEPT !.mem[r].teardowns = @ + 1]
        o == S1.mem[r].createdResources
    IN  IF o # 0
        THEN [S1 EXCEPT !.observers[o].connected = FALSE]
        ELSE S1

\* _cleanPreviousSpanInformation(xhr)
CleanPreviousSpanInformation(S, h) ==
    LET p == S.xhrMem[h]
        S1 == IF S.mem[p].callbackToRemoveEvents
              THEN CallbackToRemoveEvents(S, p)
              ELSE S
    IN  IF p # NoReq
        THEN [S1 EXCEPT !.xhrMem[h] = NoReq]
        ELSE S

\* _createSpan(xhr, url, method); r is the span the tracer would start
ClassCreateSpan(S, h, url, method, r) ==
    IF IsUrlIgnored(url, config.ignoreUrls)
    THEN S
    ELSE LET S1 == [S EXCEPT !.spans[r] = NewSpan(ToUpperCase(method))]
             S2 == SpanAddEvent(S1, r, METHOD_OPEN)
             S3 == CleanPreviousSpanInformation(S2, h)
         IN  [S3 EXCEPT !.xhrMem[h] = r, !.mem[r] = NewMem(h, url)]

AddResourceObserverUnchecked(S, h) ==
    LET r == S.xhrMem[h]
    IN  IF r = NoReq
        THEN S
        ELSE [S EXCEPT !.observers =
                           Append(@, [mem |-> r, connected |-> TRUE,
                                      cursor |-> Len(entries)]),
                       !.mem[r].createdResources = Len(S.observers) + 1,
                       !.mem[r].entries = <<>>]

\* _addResourceObserver(xhr, spanUrl)
AddResourceObserver(S, h) ==
    LET r == S.xhrMem[h]
    IN  IF r = NoReq \/ ~config.observerAvailable
        THEN S
        ELSE [S EXCEPT !.observers =
                           Append(@, [mem |-> r, connected |-> TRUE,
                                      cursor |-> Len(entries)]),
                       !.mem[r].createdResources = Len(S.observers) + 1,
                       !.mem[r].entries = <<>>]

\* patchSend, up to the call of the original send
ClassPatchSend(S, h, t) ==
    LET r == S.xhrMem[h]
        S1 == [S EXCEPT !.tasksCount = @ + 1, !.mem[r].sendStartTime = t]
        S2 == SpanAddEvent(S1, r, METHOD_SEND)
        S3 == [S2 EXCEPT !.listeners[h] = @ \cup EventKinds,
                         !.mem[r].callbackToRemoveEvents = TRUE]
        S4 == AddHeaders(S3, h, r, S.mem[r].spanUrl)
    IN  IF r = NoReq THEN S ELSE AddResourceObserver(S4, h)

AddFinalSpanAttributesFromHandle(S, r) ==
    [S EXCEPT !.spans[r].status = hstatus[S.mem[r].h],
              !.spans[r].statusText = StatusText(hstatus[S.mem[r].h]),
              !.spans[r].finalAttrs = TRUE,
              !.spans[r].late = IF S.spans[r].ended > 0 THEN @ + 1 ELSE @]

\* _addFinalSpanAttributes(span, xhrMem, spanUrl)
AddFinalSpanAttributes(S, r) ==
    [S EXCEPT !.spans[r].status = S.mem[r].status,
              !.spans[r].statusText = S.mem[r].statusText,
              !.spans[r].finalAttrs = TRUE,
              !.spans[r].late = IF S.spans[r].ended > 0 THEN @ + 1 ELSE @]

\* endSpanTimeout(eventName, xhrMem, performanceEndTime, endTime)
EndSpanTimeout(S, timer) ==
    LET r == timer.mem
        S1 == IF S.mem[r].callbackToRemoveEvents
              THEN CallbackToRemoveEvents(S, r)
              ELSE S
        S2 == FindResourceAndAddNetworkEvents(S1, r, timer.performanceEndTime)
        S3 == SpanAddEvent(S2, r, timer.eventName)
        S4 == AddFinalSpanAttributes(S3, r)
        S5 == SpanEnd(S4, r, timer.endTime)
    IN  ClearResources([S5 EXCEPT !.tasksCount = @ - 1])

\* endSpan(eventName, xhr) of _patchSend
ClassEndSpan(S, eventName, h, status, t) ==
    LET r == S.xhrMem[h]
    IN  IF r = NoReq
        THEN S
        ELSE [S EXCEPT !.mem[r].status = status,
                       !.mem[r].statusText = StatusText(status),
                       !.xhrMem[h] = NoReq,
                       !.timers = Append(@, [eventName |-> eventName, mem |-> r,
                                             performanceEndTime |-> t,
                                             endTime |-> t])]

ClassHandlerLoadedUpTo299(S, kind, h, status, t) ==
    CASE kind = "error" -> ClassEndSpan(S, EVENT_ERROR, h, status, t)
      [] kind = "abort" -> ClassEndSpan(S, EVENT_ABORT, h, status, t)
      [] kind = "timeout" -> ClassEndSpan(S, EVENT_TIMEOUT, h, status, t)
      [] kind = "load" ->
            IF status <= 299
            THEN ClassEndSpan(S, EVENT_LOAD, h, status, t)
            ELSE ClassEndSpan(S, EVENT_ERROR, h, status, t)
      [] OTHER -> ClassEndSpan(S, EVENT_READY_STATE_CHANGE, h, status, t)

\* onError / onAbort / onTimeout / onLoad / onReadyStateChange (readyState DONE)
ClassHandler(S, kind, h, status, t) ==
    CASE kind = "error" -> ClassEndSpan(S, EVENT_ERROR, h, status, t)
      [] kind = "abort" -> ClassEndSpan(S, EVENT_ABORT, h, status, t)
      [] kind = "timeout" -> ClassEndSpan(S, EVENT_TIMEOUT, h, status, t)
      [] kind = "load" ->
            IF status < 299
            THEN ClassEndSpan(S, EVENT_LOAD, h, status, t)
            ELSE ClassEndSpan(S, EVENT_ERROR, h, status, t)
      [] OTHER -> ClassEndSpan(S, EVENT_READY_STATE_CHANGE, h, status, t)

\* dispatchEvent: the handle's listener for the event, when registered
ClassDispatch(S, kind, h, status, t) ==
    IF kind \in S.listeners[h] THEN ClassHandler(S, kind, h, status, t) ELSE S


\* --------------------------------------------------- closure instrumentXHR
\* clearXhrMem(xhr)
ClearXhrMem(S, h) == [S EXCEPT !.xhrMem[h] = NoReq]

ClosureCreateSpanNoIgnore(S, h, url, method, r) ==
    LET S1 == [S EXCEPT !.spans[r] = NewSpan(ToUpperCase(method))]
        S2 == SpanAddEvent(S1, r, METHOD_OPEN)
        S3 == ClearXhrMem(S2, h)
    IN  [S3 EXCEPT !.xhrMem[h] = r, !.mem[r] = NewMem(h, url)]

\* createSpan(xhr, url, method); r is the span the tracer would start
ClosureCreateSpan(S, h, url, method, r) ==
    IF IsUrlIgnored(url, config.ignoreUrls)
    THEN S
    ELSE LET S1 == [S EXCEPT !.spans[r] = NewSpan(ToUpperCase(method))]
             S2 == SpanAddEvent(S1, r, METHOD_OPEN)
             S3 == ClearXhrMem(S2, h)
         IN  [S3 EXCEPT !.xhrMem[h] = r, !.mem[r] = NewMem(h, url)]

\* _normalizeHeader([key, value]): the key lower-cased, '-' replaced by '_',
\* trimmed (a key of lower-case letters only is left as it is by all three);
\* the value as an array of one string
NormalizeHeader(key, value) ==
    LET RECURSIVE Underscore(_)
        Underscore(str) ==
            IF \A k \in 1 .. Len(str) : SubSeq(str, k, k) # "-" THEN str
            ELSE (IF SubSeq(str, 1, 1) = "-" THEN "_" ELSE SubSeq(str, 1, 1))
                     \o Underscore(SubSeq(str, 2, Len(str)))
        plain == {"a", "b", "c", "d", "e", "f", "g", "h", "i", "j", "k", "l", "m",
                  "n", "o", "p", "q", "r", "s", "t", "u", "v", "w", "x", "y", "z"}
    IN  [key |-> IF \A k \in 1 .. Len(key) : SubSeq(key, k, k) \in plain
                 THEN key
                 ELSE Trim(Underscore(ToLowerCase(key))),
         value |-> <<value>>]

\* _normalizeHeaders(headersString): key and value are the first two parts of
\* each line; later lines replace earlier ones of the same key (Object.assign)
NormalizeHeaders(headersString) ==
    LET lines == Split(Trim(headersString), "\n")
        RECURSIVE Each(_, _)
        Each(normalizedHeaders, k) ==
            IF k > Len(lines)
            THEN normalizedHeaders
            ELSE LET parts == Split(Trim(lines[k]), ":\\s*")
                     n == IF Len(parts) >= 2 THEN NormalizeHeader(parts[1], parts[2])
                          ELSE NormalizeHeader(parts[1], "")
                 IN  IF Len(parts) >= 2 /\ parts[1] # "" /\ parts[2] # ""
                     THEN Each({x \in normalizedHeaders : x.key # n.key} \cup {n}, k + 1)
                     ELSE Each(normalizedHeaders, k + 1)
    IN  Each({}, 1)

\* _setHeaderAttributeForSpan: span.setAttribute(`http.${type}.header.${key}`,
\* value) for every entry
SetHeaderAttributeForSpan(S, normalizedHeaders, type, r) ==
    LET attrs == { [name |-> "http." \o type \o ".header." \o n.key,
                    value |-> n.value] : n \in normalizedHeaders }
    IN  [S EXCEPT !.spans[r].headerAttrs =
                      {a \in @ : \A b \in attrs : a.name # b.name} \cup attrs,
                  !.spans[r].late = IF S.spans[r].ended > 0
                                    THEN @ + Cardinality(attrs) ELSE @]

\* _handleHeaderCapture(headers, currentSpan)
HandleHeaderCapture(S, headers, r) ==
    IF config.networkHeadersCapture
    THEN SetHeaderAttributeForSpan(S, NormalizeHeaders(headers), "response", r)
    ELSE S

\* dispatchEvent('readystatechange') at HEADERS_RECEIVED: every registered
\* listener passes the lower-cased header block to _handleHeaderCapture with
\* the span of its send
RECURSIVE ClosureHeadersReceived(_, _, _)
ClosureHeadersReceived(S, ls, allResponseHeaders) ==
    IF ls = <<>>
    THEN S
    ELSE ClosureHeadersReceived(
             HandleHeaderCapture(S, ToLowerCase(allResponseHeaders), Head(ls)),
             Tail(ls), allResponseHeaders)

\* the patched XMLHttpRequest.prototype.setRequestHeader (installed when
\* networkHeadersCapture is set)
PatchedSetRequestHeader(S, h, key, value) ==
    LET r == S.xhrMem[h]
    IN  IF config.networkHeadersCapture /\ r # NoReq /\ key # "" /\ value # ""
        THEN SetHeaderAttributeForSpan(S, {NormalizeHeader(key, value)}, "request", r)
        ELSE S

\* addHeaders of instrumentXHR: as _addHeaders, through the patched
\* setRequestHeader, with the value the propagator gave the header
RECURSIVE SetEachHeader(_, _, _)
SetEachHeader(S, h, keys) ==
    IF keys = {}
    THEN S
    ELSE LET key == CHOOSE k \in keys : TRUE
         IN  SetEachHeader(PatchedSetRequestHeader(S, h, key, "00-0af7-b7ad-01"),
                           h, keys \ {key})

ClosureAddHeaders(S, h, r, spanUrl) ==
    SetEachHeader(AddHeaders(S, h, r, spanUrl), h,
                  AddHeaders(S, h, r, spanUrl).sendlog[r].injected)

\* _clearResources of instrumentXHR
ClosureClearResources(S) ==
    IF S.tasksCount = 0
    THEN [S EXCEPT !.xhrMem = [h \in Handles |-> NoReq]]
    ELSE S

\* endSpan(eventName, xhr) of instrumentXHR
ClosureEndSpan(S, eventName, h, status, t) ==
    LET r == S.xhrMem[h]
        S1 == [S EXCEPT !.mem[r].status = status,
                        !.mem[r].statusText = StatusText(status),
                        !.xhrMem[h] = NoReq]
        S2 == SpanAddEvent(S1, r, eventName)
        S3 == AddFinalSpanAttributes(S2, r)
        S4 == SpanEnd(S3, r, t)
    IN  IF r = NoReq
        THEN S
        ELSE ClosureClearResources([S4 EXCEPT !.tasksCount = @ - 1])

\* currentSpan.setAttribute('http.response.body', ...)
SetResponseBody(S, r) ==
    [S EXCEPT !.spans[r].respBody = TRUE,
              !.spans[r].late = IF S.spans[r].ended > 0 THEN @ + 1 ELSE @]

\* the readystatechange listener that the send of span r registered, run with
\* readyState DONE
ClosureListenerDone(S, h, r, status, t) ==
    IF config.networkBodyCapture /\ hblob[h]
    THEN [S EXCEPT !.pending = Append(@, [h |-> h, span |-> r])]
    ELSE LET S1 == IF config.networkBodyCapture THEN SetResponseBody(S, r) ELSE S
         IN  ClosureEndSpan(S1, EVENT_READY_STATE_CHANGE, h, status, t)

\* dispatchEvent('readystatechange') at DONE: every registered listener, in
\* the order of registration; no other event has a listener
RECURSIVE ClosureRunListeners(_, _, _, _, _)
ClosureRunListeners(S, h, ls, status, t) ==
    IF ls = <<>>
    THEN S
    ELSE ClosureRunListeners(ClosureListenerDone(S, h, Head(ls), status, t),
                             h, Tail(ls), status, t)

ClosureDispatch(S, kind, h, status, t) ==
    IF kind = "readystatechange"
    THEN ClosureRunListeners(S, h, S.listeners[h], status, t)
    ELSE S

\* new Response(this.response).text() settled: then (on success), finally
DecodeSettled(S, p, ok, status, t) ==
    LET S1 == IF ok THEN SetResponseBody(S, p.span) ELSE S
    IN  ClosureEndSpan(S1, EVENT_READY_STATE_CHANGE, p.h, status, t)

\* the body-capture block of send
CaptureRequestBody(S, r, requestBody) ==
    LET body == SerializeBody(requestBody)
    IN  IF ~body.defined
        THEN [S EXCEPT !.threw = TRUE]
        ELSE [S EXCEPT !.spans[r].reqBody = TruncateBody(body.str),
                       !.spans[r].late = IF S.spans[r].ended > 0 THEN @ + 1 ELSE @]

ClosureSendCountsFirst(S, h, requestBody, t) ==
    LET r == S.xhrMem[h]
        S1 == [S EXCEPT !.tasksCount = @ + 1, !.mem[r].sendStartTime = t]
        S2 == SpanAddEvent(S1, r, METHOD_SEND)
        S3 == IF config.networkBodyCapture
              THEN CaptureRequestBody(S2, r, requestBody)
              ELSE S2
        S4 == [S3 EXCEPT !.listeners[h] = Append(@, r)]
    IN  IF r = NoReq
        THEN [S EXCEPT !.tasksCount = @ + 1]
        ELSE IF S3.threw
             THEN S3
             ELSE ClosureAddHeaders(S4, h, r, S.mem[r].spanUrl)

\* the patched XMLHttpRequest.prototype.send, up to the call of the original
\* send; threw is set when the handler is left by an exception
ClosureSend(S, h, requestBody, t) ==
    LET r == S.xhrMem[h]
        S1 == [S EXCEPT !.tasksCount = @ + 1, !.mem[r].sendStartTime = t]
        S2 == SpanAddEvent(S1, r, METHOD_SEND)
        S3 == IF config.networkBodyCapture
              THEN CaptureRequestBody(S2, r, requestBody)
              ELSE S2
        S4 == [S3 EXCEPT !.listeners[h] = Append(@, r)]
    IN  IF r = NoReq
        THEN S
        ELSE IF S3.threw
             THEN S3
             ELSE ClosureAddHeaders(S4, h, r, S.mem[r].spanUrl)

\* the PerformanceObserver callback of _addResourceObserver, for observer o
ObserverCallback(S, o) ==
    LET ob == S.observers[o]
        news == SelectSeq(
                    [i \in 1 .. (Len(entries) - ob.cursor) |-> ob.cursor + i],
                    LAMBDA e : entries[e].name = Href(S.mem[ob.mem].spanUrl))
        S1 == [S EXCEPT !.observers[o].cursor = Len(entries)]
    IN  IF S.mem[ob.mem].createdResources # 0
        THEN [S1 EXCEPT !.mem[ob.mem].entries = @ \o news]
        ELSE S1


\* -------------------------------------------------------------- the system
IgnoreUrls == [kind |-> "array", items |-> <<StrEntry(UrlIgnored)>>]

\* what api.propagation.inject writes into the carrier
PropagatorOutputs == {{}, {"traceparent"}}

\* What the application and the transport do in a behaviour goes with the
\* configuration: the event kinds dispatched, whether an event is repeated
\* after the first, the URLs opened, the bodies sent.
BodyText == BodyString(Str("text", 4))

Environment(kinds, repeat, urls, bodies, timing) ==
    [ kinds : {kinds}, repeat : {repeat}, urls : {urls}, bodies : {bodies},
      timing : {timing} ]

Options(impl, allowLists, propagators, clear, observer, headers, body) ==
    [ impl : {impl},
      ignoreUrls : {IgnoreUrls},
      propagateTraceHeaderCorsUrls : allowLists,
      propagator : propagators,
      clearTimingResources : clear,
      observerAvailable : observer,
      networkHeadersCapture : headers,
      networkBodyCapture : body ]

\* records of a and records of b, joined
Join(a, b) ==
    { [f \in DOMAIN x \cup DOMAIN y |-> IF f \in DOMAIN x THEN x[f] ELSE y[f]] :
          x \in a, y \in b }

\* The lifecycle of the class: every event kind, repeated events, re-opened
\* handles; no resource timing is recorded.
ClassConfigs ==
    Join(Options("class", {ListOf(<<ReApi>>)}, {{"traceparent"}},
                 BOOLEAN, {TRUE}, {FALSE}, {FALSE}),
         Environment(EventKinds, TRUE, {UrlApi, UrlIgnored}, {BodyText}, FALSE))

\* Resource correlation of the class: requests to one URL, the clock runs and
\* the performance timeline records entries.
CorrelateConfigs ==
    Join(Options("class", {ListOf(<<ReApi>>)}, {{"traceparent"}},
                 BOOLEAN, BOOLEAN, {FALSE}, {FALSE}),
         Environment({"load"}, FALSE, {UrlApi}, {BodyText}, TRUE))

AllowLists ==
    { ListUndefined, ListOf(<<>>), ListOf(<<ReApi>>),
      ListOf(<<StrEntry(UrlOther), ReApi>>), ListSingle(StrEntry(Href(UrlOther))) }

\* The lifecycle of the closure: every event kind, repeated events, re-opened
\* handles, blob responses.
ClosureConfigs ==
    Join(Options("closure", {ListOf(<<ReApi>>)}, {{"traceparent"}},
                 {FALSE}, {FALSE}, {FALSE}, BOOLEAN),
         Environment(EventKinds, TRUE, {UrlApi, UrlIgnored}, {BodyText}, FALSE))

\* Header and body capture of the closure, both enabled: every kind of body.
CaptureConfigs ==
    Join(Options("closure", {ListOf(<<ReApi>>)}, {{"traceparent"}},
                 {FALSE}, {FALSE}, {TRUE}, {TRUE}),
         Environment({"readystatechange"}, FALSE, {UrlApi}, Bodies, FALSE))

\* Body capture of the closure for bodies JSON.stringify throws on.
SerializeConfigs ==
    Join(Options("closure", {ListOf(<<ReApi>>)}, {{"traceparent"}},
                 {FALSE}, {FALSE}, {FALSE}, {TRUE}),
         Environment({"readystatechange"}, FALSE, {UrlApi},
                     {BodyCircular, BodyBigInt, BodyText}, FALSE))

\* Trace-header propagation: every allow-list, every URL.
PropagateConfigs ==
    Join(Options("closure", AllowLists, PropagatorOutputs,
                 {FALSE}, {FALSE}, BOOLEAN, {FALSE}),
         Environment({"readystatechange"}, FALSE, Urls, {BodyText}, FALSE))

\* ------------------------------------------------ HyperDXRum (splunkRum.ts)
\* a property the caller left out, or a variable not yet assigned
NoValue == "undefined"

FalsyUndefinedOnly(value) == value = NoValue

\* !value, for a string property
Falsy(value) == value \in {NoValue, ""}

\* String.prototype.startsWith
StartsWith(str, prefix) ==
    Len(str) >= Len(prefix) /\ SubSeq(str, 1, Len(prefix)) = prefix

\* ReactNativeConfiguration: what the caller passes to init
ReactNativeConfiguration(service, apiKey, debug, beacon, insecure, appStart, env, headers) ==
    [service |-> service, apiKey |-> apiKey, debug |-> debug,
     beaconEndpoint |-> beacon, allowInsecureBeacon |-> insecure,
     appStartEnabled |-> appStart,
     deploymentEnvironment |-> env,
     networkHeadersCapture |-> headers]

\* the configurations init is called with (debug omitted is debug false): every
\* combination of a given, an empty and an omitted service name and API key,
\* and every combination of the optional properties beside a given name and key
InitOptions ==
    { ReactNativeConfiguration(s, k, d, NoValue, FALSE, NoValue, NoValue, FALSE) :
        s \in {NoValue, "", "my-rn-app"}, k \in {NoValue, "", "key"}, d \in BOOLEAN }
    \cup
    { ReactNativeConfiguration("my-rn-app", "key", FALSE, b, a, e, v, n) :
        b \in {NoValue, "http://collector", "https://collector"}, a \in BOOLEAN,
        e \in {NoValue, "false"}, v \in {NoValue, "prod"}, n \in BOOLEAN }

\* the init call of the README
ReadmeOptions ==
    ReactNativeConfiguration("my-rn-app", "key", FALSE, NoValue, FALSE, NoValue,
                             NoValue, FALSE)

\* { ...DEFAULT_CONFIG, ...configugration }
WithDefaults(o) ==
    [o EXCEPT !.appStartEnabled = IF @ = NoValue THEN "true" ELSE @]

\* HyperDXRum and the module variables before any call; the exported global
\* state (diag, the global tracer provider, the patched runtime) with it.
\* appStartEnd is NoTime while null; appStartEnds are the times the AppStart
\* span was ended with; clock is Date.now(); finished and resolved record
\* when finishAppStart was called and when initializeNativeSdk resolved;
\* wrapper is the module state of OtelWrapper.tsx, with its renders counted
NewRum(os) ==
    [os |-> os,
     isInitialized |-> FALSE,
     appStartInfo |-> NoValue,
     appStartSpan |-> NoValue,
     appStartEnd |-> NoTime,
     appStartEnds |-> <<>>,
     clock |-> 1,
     finished |-> <<>>,
     resolved |-> NoTime,
     wrapper |-> [isInitialized |-> FALSE, renders |-> 0],
     provider |-> NoValue,
     registered |-> 0,
     diag |-> [logger |-> 0, level |-> NoValue],
     log |-> <<>>,
     OTEL_TRACES_EXPORTER |-> NoValue,
     xhr |-> <<>>,
     errors |-> 0,
     globalAttributes |->
         [app |-> NoValue, HDX_API_KEY |-> NoValue, process_serviceName |-> NoValue,
          deployment_environment |-> NoValue],
     native |-> <<>>,
     sessions |-> 0,
     started |-> <<>>,
     calls |-> 0,
     args |-> [service |-> NoValue, apiKey |-> NoValue],
     returned |-> NoValue]

\* diag.warn / diag.error / diag.debug
Diag(R, level, message) == [R EXCEPT !.log = <<level, message>>]

\* setGlobalAttributes(confAttributes) of addGlobalAttributesFromConf
AddGlobalAttributesFromConf(R, conf) ==
    [R EXCEPT !.globalAttributes =
        [@ EXCEPT !.app = conf.service,
                  !.HDX_API_KEY = IF Falsy(conf.apiKey) THEN @ ELSE conf.apiKey,
                  !.process_serviceName =
                      IF Falsy(conf.service) THEN @ ELSE conf.service,
                  !.deployment_environment =
                      IF Falsy(conf.deploymentEnvironment) THEN @
                      ELSE conf.deploymentEnvironment]]

\* the part of init that follows the validation of the options
RumSetup(R, conf) ==
    LET nativeSdkConf ==
            [beaconEndpoint |-> IF Falsy(conf.beaconEndpoint)
                                THEN "https://in-otel.hyperdx.io:9411/api/v2/spans"
                                ELSE conf.beaconEndpoint,
             apiKey |-> conf.apiKey,
             globalAttributes |-> R.globalAttributes,
             appStartEnabled |-> conf.appStartEnabled]
        R1 == AddGlobalAttributesFromConf(R, conf)
        R2 == [R1 EXCEPT !.provider = "WebTracerProvider",
                         !.registered = @ + 1,
                         !.xhr = Append(@, [networkHeadersCapture |->
                                               conf.networkHeadersCapture]),
                         !.errors = @ + 1]
        R3 == Diag(R2, "debug", "Initializing with: ")
    IN  [R3 EXCEPT !.native = Append(@, nativeSdkConf),
                   !.isInitialized = TRUE,
                   !.returned = "this"]

\* HyperDXRum.init
RumInit(R, o) ==
    LET conf == WithDefaults(o)
        R0 == [R EXCEPT !.calls = @ + 1, !.args = [service |-> o.service, apiKey |-> o.apiKey], !.returned = NoValue,
                        !.diag = [logger |-> @.logger + 1,
                                  level |-> IF conf.debug THEN "DEBUG" ELSE "ERROR"]]
        R1 == [R0 EXCEPT !.OTEL_TRACES_EXPORTER = IF @ = NoValue THEN "none" ELSE @]
    IN  IF R0.isInitialized THEN Diag(R0, "warn", "SplunkRum already init()ed.")
        ELSE IF Falsy(conf.service)
        THEN Diag(R1, "error", "service name is required.")
        ELSE IF Falsy(conf.apiKey)
        THEN Diag(R1, "error", "When sending data to HyperDX apiKey is required.")
        ELSE IF /\ ~Falsy(conf.beaconEndpoint)
                /\ ~StartsWith(conf.beaconEndpoint, "https")
                /\ ~conf.allowInsecureBeacon
        THEN Diag(R1, "error", "Not using https is unsafe")
        ELSE RumSetup(R1, conf)

\* what initializeNativeSdk resolves to
AppStartInfos ==
    { [isColdStart |-> c, appStart |-> a] :
        c \in BOOLEAN, a \in {NoValue, "appStart"} }

\* the callback init passes to initializeNativeSdk(nativeSdkConf).then
NativeInitialized(R, nativeAppStart) ==
    LET conf == Head(R.native)
        info == IF R.os = "ios"
                THEN [isColdStart |-> TRUE,
                      appStart |-> IF nativeAppStart.appStart = NoValue
                                   THEN "moduleStart" ELSE nativeAppStart.appStart]
                ELSE nativeAppStart
        R1 == [R EXCEPT !.native = Tail(@), !.appStartInfo = info,
                        !.sessions = @ + 1,
                        !.resolved = R.clock, !.clock = @ + 1]
    IN  IF conf.appStartEnabled # "true" THEN R1
        ELSE LET R2 == [R1 EXCEPT !.started =
                            @ \o <<"AppStart", "SplunkRum.nativeInit",
                                   "SplunkRum.jsInit">>,
                                  !.appStartSpan = "recording"]
             IN  IF R2.appStartEnd # NoTime
                 THEN [Diag(R2, "debug", "AppStart: using manual end")
                          EXCEPT !.appStartSpan = "ended",
                                 !.appStartEnds = Append(@, R2.appStartEnd)]
                 ELSE R2

FinishAppStartNoRecordingTest(R) ==
    LET R0 == [R EXCEPT !.finished = Append(@, R.clock), !.clock = @ + 1]
    IN  IF R.appStartSpan # NoValue
        THEN [R0 EXCEPT !.appStartSpan = "ended",
                        !.appStartEnds = Append(@, R.clock)]
        ELSE Diag([R0 EXCEPT !.appStartEnd = R.clock], "debug",
                  "AppStart: end called without start")

\* HyperDXRum.finishAppStart, called at Date.now() = R.clock
FinishAppStart(R) ==
    LET R0 == [R EXCEPT !.finished = Append(@, R.clock), !.clock = @ + 1]
    IN  IF R.appStartSpan = "recording"
        THEN [R0 EXCEPT !.appStartSpan = "ended",
                        !.appStartEnds = Append(@, R.clock)]
        ELSE Diag([R0 EXCEPT !.appStartEnd = R.clock], "debug",
                  "AppStart: end called without start")

\* a call of a patched method
Call(op, h, body) == [op |-> op, h |-> h, body |-> body]
NoCall == Call("none", "h1", BodyUndefined)

XhrInit(configs) ==
    /\ config \in configs
    /\ hstate = [h \in Handles |-> "unsent"]
    /\ hstatus = [h \in Handles |-> 0]
    /\ hblob = [h \in Handles |-> FALSE]
    /\ hurl = [h \in Handles |-> ""]
    /\ hcur = [h \in Handles |-> NoReq]
    /\ hevents = [h \in Handles |-> 0]
    /\ entries = <<>>
    /\ now = 1
    /\ nextReq = 0
    /\ opens = 0
    /\ firstEvent = [r \in Reqs |-> "none"]
    /\ firstStatus = [r \in Reqs |-> NoStatus]
    /\ wasSent = [r \in Reqs |-> FALSE]
    /\ lastCall = NoCall
    /\ lastOrig = <<>>
    /\ xhrMem = [h \in Handles |-> NoReq]
    /\ mem = [r \in Reqs |-> NoMem]
    /\ listeners = [h \in Handles |->
                       IF config.impl = "class" THEN {} ELSE <<>>]
    /\ observers = <<>>
    /\ timers = <<>>
    /\ pending = <<>>
    /\ spans = [r \in Reqs |-> NoSpan]
    /\ tasksCount = 0
    /\ usedResources = {}
    /\ perf = {}
    /\ attributed = [e \in 1 .. MaxEntries |-> {}]
    /\ reqHeaders = [h \in Handles |-> {}]
    /\ sendlog = [r \in Reqs |-> NoSendLog]
    /\ threw = FALSE

\* the instrumentation as installed by the init call of the README
InitWith(configs) ==
    /\ XhrInit(configs)
    /\ rum = RumInit(NewRum("android"), ReadmeOptions)

\* original.apply(this, args): the original method, given the call's arguments
Original(op) == [op |-> op, args |-> "the caller's"]

\* the state a patched method starts from: nothing thrown yet
Entry == [Cur EXCEPT !.threw = FALSE]

\* handles are interchangeable: a fresh handle is taken in a fixed order
FirstUse(h) == h = "h1" \/ hstate["h1"] # "unsent"

CreateSpan(S, h, url, method, r) ==
    IF config.impl = "class"
    THEN ClassCreateSpan(S, h, url, method, r)
    ELSE ClosureCreateSpan(S, h, url, method, r)

\* xhr.open(method, url): patchOpen / the patched prototype.open, then the
\* original open, which resets the handle
Open(h, method, url) ==
    LET ignored == IsUrlIgnored(url, config.ignoreUrls)
        r == nextReq + 1
        S == CreateSpan(Entry, h, url, method, r)
        started == S.spans # spans
    IN  /\ opens < MaxOpens
        /\ FirstUse(h)
        /\ opens' = opens + 1
        /\ url \in config.urls
        /\ Commit([S EXCEPT !.reqHeaders[h] = {}])
        /\ nextReq' = IF started THEN r ELSE nextReq
        /\ hstate' = [hstate EXCEPT ![h] = "opened"]
        /\ hstatus' = [hstatus EXCEPT ![h] = 0]
        /\ hblob' = [hblob EXCEPT ![h] = FALSE]
        /\ hurl' = [hurl EXCEPT ![h] = url]
        /\ hcur' = [hcur EXCEPT ![h] = IF started THEN r ELSE NoReq]
        /\ hevents' = [hevents EXCEPT ![h] = 0]
        /\ lastCall' = Call("open", h, BodyUndefined)
        /\ lastOrig' = <<Original("open")>>
        /\ UNCHANGED <<config, rum, entries, now, firstEvent, firstStatus, wasSent>>

PatchedSend(S, h, requestBody, t) ==
    IF config.impl = "class"
    THEN ClassPatchSend(S, h, t)
    ELSE ClosureSend(S, h, requestBody, t)

\* xhr.send(body) on an opened handle; blob: its responseType is 'blob'
Send(h, requestBody, blob) ==
    LET S == PatchedSend(Entry, h, requestBody, now)
    IN  /\ hstate[h] = "opened"
        /\ requestBody \in config.bodies
        /\ blob => (config.impl = "closure" /\ config.networkBodyCapture)
        /\ Commit(S)
        /\ lastCall' = Call("send", h, requestBody)
        /\ lastOrig' = IF S.threw THEN <<>> ELSE <<Original("send")>>
        /\ hstate' = [hstate EXCEPT ![h] = IF S.threw THEN "failed" ELSE "sent"]
        /\ hblob' = [hblob EXCEPT ![h] = blob]
        /\ wasSent' = IF hcur[h] # NoReq /\ ~S.threw
                      THEN [wasSent EXCEPT ![hcur[h]] = TRUE]
                      ELSE wasSent
        /\ UNCHANGED <<config, rum, hstatus, hurl, hcur, hevents, entries, now, nextReq,
                       opens, firstEvent, firstStatus>>

\* xhr.setRequestHeader(key, value) by the application on an opened handle
SetRequestHeader(h, key, value) ==
    LET S == PatchedSetRequestHeader(Entry, h, key, value)
    IN  /\ config.impl = "closure"
        /\ hstate[h] = "opened"
        /\ key \notin reqHeaders[h]
        /\ Commit([S EXCEPT !.reqHeaders[h] = @ \cup {key}])
        /\ lastCall' = Call("setRequestHeader", h, BodyUndefined)
        /\ lastOrig' = <<Original("setRequestHeader")>>
        /\ UNCHANGED <<config, rum, hstate, hstatus, hblob, hurl, hcur, hevents, entries,
                       now, nextReq, opens, firstEvent, firstStatus, wasSent>>

Dispatch(S, kind, h, status, t) ==
    IF config.impl = "class"
    THEN ClassDispatch(S, kind, h, status, t)
    ELSE ClosureDispatch(S, kind, h, status, t)

\* the status the transport reports with an event
StatusesOf(kind) ==
    IF kind \in {"error", "abort", "timeout"}
    THEN {0}
    ELSE IF kind = "load" THEN {200, 298, 299, 404} ELSE {200}

\* the transport dispatches a terminal-style event on a sent handle
\* a listener for the event is registered on the handle
Listening(h, kind) ==
    IF config.impl = "class"
    THEN kind \in listeners[h]
    ELSE kind = "readystatechange" /\ listeners[h] # <<>>

Deliver(h, kind, status) ==
    /\ hstate[h] \in {"sent", "done"}
    /\ hevents[h] < (IF config.repeat THEN MaxEvents ELSE 1)
    /\ kind \in config.kinds
    /\ IF hstate[h] = "sent" /\ hstatus[h] = 0
       THEN status \in StatusesOf(kind)
       ELSE status = hstatus[h]
    /\ Commit(Dispatch(Cur, kind, h, status, now))
    /\ hstate' = [hstate EXCEPT ![h] = "done"]
    /\ hstatus' = [hstatus EXCEPT ![h] = status]
    /\ hevents' = [hevents EXCEPT ![h] = @ + 1]
    /\ firstEvent' = IF hcur[h] # NoReq /\ firstEvent[hcur[h]] = "none"
                     THEN [firstEvent EXCEPT ![hcur[h]] = kind]
                     ELSE firstEvent
    /\ firstStatus' = IF /\ xhrMem[h] # NoReq
                         /\ Listening(h, kind)
                         /\ firstStatus[xhrMem[h]] = NoStatus
                      THEN [firstStatus EXCEPT ![xhrMem[h]] = status]
                      ELSE firstStatus
    /\ UNCHANGED <<config, rum, hblob, hurl, hcur, entries, now, nextReq, opens, wasSent,
                   lastCall, lastOrig>>

\* the settle delay of the oldest pending setTimeout has elapsed
TimerFire ==
    /\ timers # <<>>
    /\ Commit(EndSpanTimeout([Cur EXCEPT !.timers = Tail(@)], Head(timers)))
    /\ UNCHANGED envVars

\* a pending blob decode settles, successfully or not
DecodeSettle(i, ok) ==
    /\ i \in DOMAIN pending
    /\ Commit(DecodeSettled(
           [Cur EXCEPT !.pending = SubSeq(@, 1, i - 1) \o SubSeq(@, i + 1, Len(@))],
           pending[i], ok, hstatus[pending[i].h], now))
    /\ UNCHANGED envVars

\* the performance timeline records the fetch of a sent request's URL
\* (the request itself or its CORS preflight)
PerfEntry(r, duration) ==
    /\ config.timing
    /\ Len(entries) < MaxEntries
    /\ r \in 1 .. nextReq
    /\ wasSent[r]
    /\ now - duration >= 1
    /\ entries' = Append(entries, [name |-> Href(mem[r].spanUrl),
                                   fetchStart |-> now - duration,
                                   responseEnd |-> now])
    /\ perf' = perf \cup {Len(entries) + 1}
    /\ now' = now + 1
    /\ UNCHANGED <<config, rum, hstate, hstatus, hblob, hurl, hcur, hevents, nextReq,
                   opens, firstEvent, firstStatus, wasSent, lastCall, lastOrig>>
    /\ UNCHANGED <<xhrMem, mem, listeners, observers, timers, pending, spans,
                   tasksCount, usedResources, attributed, reqHeaders, sendlog, threw>>

\* a connected observer is called back with the entries recorded since
ObserverNotify(o) ==
    /\ o \in DOMAIN observers
    /\ observers[o].connected
    /\ observers[o].cursor < Len(entries)
    /\ Commit(ObserverCallback(Cur, o))
    /\ UNCHANGED envVars

OpenAny == \E h \in Handles, m \in Methods, u \in Urls : Open(h, m, u)
SendAny == \E h \in Handles, b \in Bodies \cup {BodyText, BodyBigInt}, blob \in BOOLEAN : Send(h, b, blob)
DeliverAny == \E h \in Handles, k \in EventKinds, st \in Statuses : Deliver(h, k, st)
DecodeAny == \E i \in 1 .. MaxOpens * MaxEvents, ok \in BOOLEAN : DecodeSettle(i, ok)
PerfEntryAny == \E r \in Reqs, d \in {0, 2} : PerfEntry(r, d)
ObserverAny == \E o \in 1 .. MaxOpens : ObserverNotify(o)
SetHeaderAny ==
    \E h \in Handles : SetRequestHeader(h, "content-type", "application/json")

ClassLifeNext ==
    \/ OpenAny
    \/ SendAny
    \/ DeliverAny
    \/ TimerFire

ClassNext ==
    \/ OpenAny
    \/ SendAny
    \/ DeliverAny
    \/ TimerFire
    \/ PerfEntryAny
    \/ ObserverAny

ClosureNext ==
    \/ OpenAny
    \/ SendAny
    \/ SetHeaderAny
    \/ DeliverAny
    \/ DecodeAny

SpecClass == InitWith(ClassConfigs) /\ [][ClassLifeNext]_vars

SpecCorrelate == InitWith(CorrelateConfigs) /\ [][ClassNext]_vars

SpecClosure == InitWith(ClosureConfigs) /\ [][ClosureNext]_vars

SpecCapture == InitWith(CaptureConfigs) /\ [][ClosureNext]_vars

PropagateNext ==
    \/ OpenAny
    \/ SendAny
    \/ SetHeaderAny
    \/ DeliverAny

SpecPropagate == InitWith(PropagateConfigs) /\ [][PropagateNext]_vars

\* The class under its scheduling: the runtime runs every setTimeout callback
\* once its delay has elapsed. Requests that load or fail, one event each.
FairClassConfigs ==
    Join(Options("class", {ListOf(<<ReApi>>)}, {{"traceparent"}},
                 {FALSE}, {TRUE}, {FALSE}, {FALSE}),
         Environment({"load", "error"}, FALSE, {UrlApi}, {BodyText}, FALSE))

FairSpecClass ==
    InitWith(FairClassConfigs) /\ [][ClassLifeNext]_vars /\ WF_vars(TimerFire)

\* The class between a terminal event and its deferred finalization: requests
\* that load with any status or fail, repeated events, re-opened handles.
SettleConfigs ==
    Join(Options("class", {ListOf(<<ReApi>>)}, {{"traceparent"}},
                 BOOLEAN, {TRUE}, {FALSE}, {FALSE}),
         Environment({"load", "error"}, TRUE, {UrlApi}, {BodyText}, FALSE))

SpecSettle == InitWith(SettleConfigs) /\ [][ClassLifeNext]_vars

\* Either implementation with handles that have no RequestState: ignored
\* URLs, and registries reset while a handle is opened.
SendConfigs ==
    Join(Options("class", {ListOf(<<ReApi>>)}, {{"traceparent"}},
                 {TRUE}, {TRUE}, {FALSE}, {FALSE})
           \cup Options("closure", {ListOf(<<ReApi>>)}, {{"traceparent"}},
                        {TRUE}, {TRUE}, {FALSE}, {FALSE}),
         Environment({"readystatechange"}, FALSE, {UrlApi, UrlIgnored}, {BodyText},
                     FALSE))

SendNext ==
    \/ OpenAny
    \/ SendAny
    \/ SetHeaderAny
    \/ DeliverAny
    \/ TimerFire

SpecSend == InitWith(SendConfigs) /\ [][SendNext]_vars

SpecSerialize == InitWith(SerializeConfigs) /\ [][ClosureNext]_vars

\* The class on a runtime without PerformanceObserver, while the performance
\* timeline still records entries.
DegradedConfigs ==
    Join(Options("class", {ListOf(<<ReApi>>)}, {{"traceparent"}},
                 {FALSE}, {FALSE}, {FALSE}, {FALSE}),
         Environment({"load"}, FALSE, {UrlApi}, {BodyText}, TRUE))

DegradedNext ==
    \/ OpenAny
    \/ SendAny
    \/ DeliverAny
    \/ TimerFire
    \/ PerfEntryAny

SpecDegraded == InitWith(DegradedConfigs) /\ [][DegradedNext]_vars

\* Header capture of the closure: request headers set by the application and
\* the response header block, with capture on and off.
HeadersConfigs ==
    Join(Options("closure", {ListOf(<<ReApi>>)}, {{"traceparent"}},
                 {FALSE}, {FALSE}, BOOLEAN, {FALSE}),
         Environment({"readystatechange"}, FALSE, {UrlApi}, {BodyText}, FALSE))

\* headers as name and value, with the key the attribute is to be filed under
Header(name, key, value) == [name |-> name, key |-> key, value |-> value]

\* the [key, value] arguments of the application's setRequestHeader calls
RequestHeaders ==
    { Header("Content-Type", "content_type", "application/JSON"),
      Header("X-Request-ID", "x_request_id", "A1:b2") }

\* the header blocks of the responses
ResponseHeaders ==
    { <<Header("Content-Type", "content_type", "application/json"),
        Header("content-length", "content_length", "2")>>,
      <<Header("Date", "date", "Tue, 03 Nov 2026 22:00:00 GMT")>>,
      <<Header("X-Request-ID", "x_request_id", "AbC123")>> }

\* xhr.getAllResponseHeaders(): one line "name: value" per header, each ended
\* by CRLF
RECURSIVE GetAllResponseHeaders(_)
GetAllResponseHeaders(hs) ==
    IF hs = <<>>
    THEN ""
    ELSE Head(hs).name \o ": " \o Head(hs).value \o "\r\n"
             \o GetAllResponseHeaders(Tail(hs))

\* the transport dispatches readystatechange with readyState HEADERS_RECEIVED
\* on a sent handle: status and headers of the response are known
HeadersReceived(h, hs, status) ==
    /\ config.impl = "closure"
    /\ hstate[h] = "sent"
    /\ hstatus[h] = 0
    /\ Commit(ClosureHeadersReceived(Cur, listeners[h], GetAllResponseHeaders(hs)))
    /\ hstatus' = [hstatus EXCEPT ![h] = status]
    /\ UNCHANGED <<config, rum, hstate, hblob, hurl, hcur, hevents, entries, now,
                   nextReq, opens, firstEvent, firstStatus, wasSent, lastCall,
                   lastOrig>>

HeadersNext ==
    \/ OpenAny
    \/ SendAny
    \/ \E h \in Handles, hd \in RequestHeaders : SetRequestHeader(h, hd.name, hd.value)
    \/ \E h \in Handles, hs \in ResponseHeaders : HeadersReceived(h, hs, 200)
    \/ DeliverAny

SpecHeaders == InitWith(HeadersConfigs) /\ [][HeadersNext]_vars

\* Correlation of the class with an observer: one handled load per request,
\* entries recorded for the request and its preflight, caches reset or kept.
PreflightConfigs ==
    Join(Options("class", {ListOf(<<ReApi>>)}, {{"traceparent"}},
                 BOOLEAN, {TRUE}, {FALSE}, {FALSE}),
         Environment({"load"}, FALSE, {UrlApi}, {BodyText}, TRUE))

SpecPreflight == InitWith(PreflightConfigs) /\ [][DegradedNext]_vars

\* the xhr state, which no call of HyperDXRum touches
xhrVars ==
    <<config, hstate, hstatus, hblob, hurl, hcur, hevents, entries, now, nextReq,
      opens, firstEvent, firstStatus, wasSent, lastCall, lastOrig, insVars>>

\* the application calls HyperDXRum.init(o)
Init(o) ==
    /\ rum.calls < MaxInits
    /\ rum' = RumInit(rum, o)
    /\ UNCHANGED xhrVars

\* the promise of initializeNativeSdk resolves
NativeResolve(info) ==
    /\ rum.native # <<>>
    /\ rum' = NativeInitialized(rum, info)
    /\ UNCHANGED xhrVars

\* the application (OtelWrapper's effect) calls HyperDXRum.finishAppStart()
FinishAppStartCall ==
    /\ Len(rum.finished) < MaxFinishes
    /\ rum' = FinishAppStart(rum)
    /\ UNCHANGED xhrVars

\* React renders <OtelWrapper configuration={o}>: the first render of the
\* module calls init, whatever init then does, and every later one only logs
\* 'Already initialized'
OtelWrapper(o) ==
    /\ rum.calls < MaxInits
    /\ rum.wrapper.renders < MaxInits
    /\ rum' = LET R == [rum EXCEPT !.wrapper.renders = @ + 1]
              IN  IF ~rum.wrapper.isInitialized
                  THEN [RumInit(R, o) EXCEPT !.wrapper.isInitialized = TRUE]
                  ELSE R
    /\ UNCHANGED xhrVars

RumNext ==
    \/ \E o \in InitOptions : Init(o)
    \/ \E info \in AppStartInfos : NativeResolve(info)
    \/ FinishAppStartCall

\* the application before its first call of init
RumStart ==
    /\ XhrInit(SerializeConfigs)
    /\ rum \in { NewRum(os) : os \in {"ios", "android"} }

SpecRum == RumStart /\ [][RumNext]_vars

\* The application under OtelWrapper, re-rendered with any configuration,
\* beside direct calls of init.
WrapperNext ==
    \/ \E o \in InitOptions : OtelWrapper(o)
    \/ RumNext

SpecWrapper == RumStart /\ [][WrapperNext]_vars


\* ------------------------------------------------------------- properties
\* nothing the instrumentation has deferred is still to run
Quiescent == timers = <<>> /\ pending = <<>>

\* span r belongs to a request that was sent and for which the transport has
\* delivered a terminal-style event
Completed(r) == wasSent[r] /\ firstEvent[r] # "none"

\* C1: the span of every instrumented request that was sent and has completed
\* is ended exactly once, whatever terminal-style events fired for its handle
\* and in whatever order: never ended twice, and ended once as soon as nothing
\* deferred is left to run.
SpanEndedExactlyOnce ==
    \A r \in Reqs :
        /\ spans[r].ended <= 1
        /\ (Completed(r) /\ Quiescent) => spans[r].ended = 1

\* C2: a request that was sent and for which the transport delivered a
\* terminal-style event eventually has its span ended, also when its handle
\* was re-used before the earlier request's deferred finalization ran.
CompletedLeadsToEnded ==
    \A r \in Reqs : Completed(r) ~> (spans[r].ended >= 1)

\* C3: a resource-timing entry attributed to one span (as main request or as
\* CORS preflight) is never attributed to a second span, for requests to the
\* same URL whose windows overlap and whose finalizations run in any order.
EntryAttributedAtMostOnce ==
    \A e \in 1 .. MaxEntries : Cardinality(attributed[e]) <= 1

\* entry e lies in the send-to-terminal window of the ended span r
InWindow(e, r) ==
    /\ spans[r].ended = 1
    /\ mem[r].createdResources # 0
    /\ entries[e].name = Href(mem[r].spanUrl)
    /\ entries[e].fetchStart >= mem[r].sendStartTime
    /\ entries[e].responseEnd <= spans[r].endTime

\* two finalized requests to one URL whose windows both hold the same two
\* entries, each of which went to a different one of them
EntriesContended ==
    \E e1, e2 \in DOMAIN entries : \E r1, r2 \in Reqs :
        /\ r1 # r2
        /\ attributed[e1] = {r1}
        /\ attributed[e2] = {r2}
        /\ InWindow(e1, r1) /\ InWindow(e1, r2)
        /\ InWindow(e2, r1) /\ InWindow(e2, r2)
\* the step is a call of open on handle h with a URL that matches an ignore
\* pattern
IgnoredOpen(h) ==
    /\ opens' = opens + 1
    /\ lastCall' = Call("open", h, BodyUndefined)
    /\ IsUrlIgnored(hurl'[h], config.ignoreUrls)

\* C4: a call of open with a URL that matches an ignore pattern starts no
\* span and creates no RequestState for the handle, and the original open is
\* still invoked, once, with the caller's arguments.
IgnoredOpenCreatesNothing ==
    [][\A h \in Handles :
          IgnoredOpen(h) =>
              /\ spans' = spans
              /\ nextReq' = nextReq
              /\ xhrMem' = xhrMem
              /\ mem' = mem
              /\ ~threw'
              /\ lastOrig' = <<Original("open")>>
              /\ hstate'[h] = "opened"]_vars

\* an ignored URL was opened on a fresh handle after a span had been started
\* on another one
IgnoredOpenHappened ==
    /\ lastCall.op = "open"
    /\ IsUrlIgnored(hurl[lastCall.h], config.ignoreUrls)
    /\ xhrMem[lastCall.h] = NoReq
    /\ nextReq = 1
    /\ opens = 2

\* C5: no call of the patched open, send or setRequestHeader throws, and each
\* invokes the original method exactly once with the caller's arguments, for
\* every configuration, state of the handle and kind of request body.
PatchedCallsNeverThrow ==
    /\ ~threw
    /\ lastCall.op # "none" => lastOrig = <<Original(lastCall.op)>>
\* the URL, as the request carries it, matches an entry of the allow-list
AllowListed(url) ==
    LET list == config.propagateTraceHeaderCorsUrls
    IN  /\ list.kind # "undefined"
        /\ \E i \in DOMAIN list.items : UrlMatches(Href(url), list.items[i])

\* C6: at send, the trace-context headers are set on the outgoing request if
\* and only if the URL of the request matches an entry of the allow-list
\* (never with an empty or absent list), and the skip is logged only when the
\* propagator had a header to set.
TraceHeadersIffAllowListed ==
    /\ \A h \in Handles :
           hstate[h] \in {"sent", "done"} =>
               /\ (hcur[h] # NoReq /\ AllowListed(hurl[h]))
                      => config.propagator \subseteq reqHeaders[h]
               /\ ~AllowListed(hurl[h])
                      => reqHeaders[h] \cap {"traceparent"} = {}
    /\ \A r \in Reqs : sendlog[r].skipLogged => config.propagator # {}

\* the request body that JSON.stringify or the string itself gives
Serialized(requestBody) == SerializeBody(requestBody).str

\* the latest call was a send that captured the body of span r
BodyCaptured(r) ==
    /\ lastCall.op = "send"
    /\ ~threw
    /\ config.networkBodyCapture
    /\ xhrMem[lastCall.h] = r
    /\ SerializeBody(lastCall.body).defined

\* C7: with body capture enabled, the captured http.request.body is the
\* serialized request body when that has at most 5120 characters, exactly its
\* first 5120 characters when it is longer, and never longer than 5120.
RequestBodyTruncatedAtCeiling ==
    \A r \in Reqs :
        BodyCaptured(r) =>
            LET body == Serialized(lastCall.body)
                captured == spans[r].reqBody
            IN  /\ captured.gen = body.gen
                /\ body.len <= 5120 => captured.len = body.len
                /\ body.len > 5120 => captured.len = 5120
                /\ captured.len <= 5120

\* a body of 5121 characters has just been captured cut to 5120, after a
\* short serialized object was captured whole for another request
LongAndShortBodyCaptured ==
    \E r1, r2 \in Reqs :
        /\ r1 # r2
        /\ BodyCaptured(r2)
        /\ Serialized(lastCall.body).len = 5121
        /\ spans[r2].reqBody.len = 5120
        /\ spans[r1].reqBody = Serialized(BodyObject(Str("{\"a\":1}", 7)))
\* C8: once open has stored a new RequestState for a handle, the completion
\* listeners registered for the handle's prior request are off the handle, so
\* that none of them can fire for the new request.
ReopenRemovesPriorListeners ==
    \A h \in Handles :
        (hcur[h] # NoReq /\ xhrMem[h] = hcur[h]) =>
            \A i \in DOMAIN listeners[h] : listeners[h][i] = hcur[h]

\* C9: after open, send and a timeout, the span is ended, its terminal event
\* is named `timeout`, it carries the status read at that time, and the Task
\* Counter has come back to where it was before the send.
TimeoutEndsSpanAsTimeout ==
    \A r \in Reqs :
        (wasSent[r] /\ firstEvent[r] = "timeout" /\ Quiescent
             /\ hcur[mem[r].h] = r) =>
            /\ spans[r].ended = 1
            /\ spans[r].events = <<METHOD_OPEN, METHOD_SEND, EVENT_TIMEOUT>>
            /\ spans[r].status = 0
            /\ (opens = 1 => tasksCount = 0)

\* C10: after send, one terminal event of any kind (load, error, abort,
\* timeout, readystatechange at DONE), delivered alone, ends the span.
AnySingleEventEndsSpan ==
    \A h \in Handles :
        (hcur[h] # NoReq /\ wasSent[hcur[h]] /\ hevents[h] = 1 /\ Quiescent) =>
            spans[hcur[h]].ended = 1
\* the terminal events recorded on span r, in order
IsTerminalName(n) == n \in TerminalNames
TerminalEvents(r) == SelectSeq(spans[r].events, IsTerminalName)

\* the name onLoad records for a status
LoadName(status) == IF status >= 299 THEN EVENT_ERROR ELSE EVENT_LOAD

\* the handle's load listener is registered and the handle has a RequestState
LoadHandled(h) == "load" \in listeners[h] /\ xhrMem[h] # NoReq

\* C11: a load event handled for a request is recorded under `error` when the
\* status is 299 or more and under `loaded` when it is lower; the deferred
\* finalization records that name on the span of that request, which it ends,
\* and the span is ended once.
LoadEventNamedByStatus ==
    [][ /\ \A h \in Handles, st \in Statuses :
               (Deliver(h, "load", st) /\ LoadHandled(h)) =>
                   timers' = Append(timers, [eventName |-> LoadName(st),
                                             mem |-> xhrMem[h],
                                             performanceEndTime |-> now,
                                             endTime |-> now])
        /\ TimerFire =>
               LET r == Head(timers).mem
               IN  /\ spans'[r].events = Append(spans[r].events, Head(timers).eventName)
                   /\ spans[r].ended = 0
                   /\ spans'[r].ended = 1
                   /\ SelectSeq(spans'[r].events, IsTerminalName)
                          = <<Head(timers).eventName>>
      ]_vars

\* loads with status 298 and 299 have both been finalized
LoadAtBoundaryEnded ==
    \E r1, r2 \in Reqs :
        /\ firstStatus[r1] = 298
        /\ spans[r1].ended = 1 /\ TerminalEvents(r1) = <<EVENT_LOAD>>
        /\ firstStatus[r2] = 299
        /\ spans[r2].ended = 1 /\ TerminalEvents(r2) = <<EVENT_ERROR>>

\* C12: the span is named by the uppercased method given to open, and the
\* status code and status text on the ended span are those the handle had at
\* the terminal event of the span's request, whatever the handle's status is
\* when the deferred finalization runs.
EndedSpanHasStatusOfTerminalEvent ==
    \A r \in Reqs :
        /\ spans[r].started => \E method \in Methods : spans[r].name = ToUpperCase(method)
        /\ spans[r].ended >= 1 =>
               /\ firstStatus[r] # NoStatus
               /\ spans[r].status = firstStatus[r]
               /\ spans[r].statusText = StatusText(firstStatus[r])

\* a request that loaded with 404 was finalized after its handle had been
\* re-opened and sent again: the handle's status is no longer 404
FinalizedAfterReopen ==
    \E r1, r2 \in Reqs :
        /\ r1 # r2 /\ mem[r1].h = mem[r2].h
        /\ hcur[mem[r1].h] = r2 /\ wasSent[r2]
        /\ hstate[mem[r1].h] = "sent" /\ listeners[mem[r1].h] = {}
        /\ hstatus[mem[r1].h] = 0
        /\ spans[r1].ended = 1 /\ spans[r1].name = "GET"
        /\ spans[r1].status = 404 /\ spans[r1].statusText = "Not Found"

\* the step is a call of send on handle h, which has no RequestState
SendWithoutState(h) ==
    /\ hstate[h] = "opened" /\ hstate'[h] # "opened"
    /\ lastCall'.op = "send" /\ lastCall'.h = h
    /\ xhrMem[h] = NoReq

\* C13: a call of send on a handle with no RequestState leaves the Task
\* Counter unchanged, registers no listener and no observer, injects no
\* header, touches no span, and invokes the original send.
SendWithoutStateChangesNothing ==
    [][\A h \in Handles :
          SendWithoutState(h) =>
              /\ tasksCount' = tasksCount
              /\ listeners' = listeners
              /\ observers' = observers
              /\ reqHeaders' = reqHeaders
              /\ sendlog' = sendlog
              /\ spans' = spans
              /\ mem' = mem
              /\ xhrMem' = xhrMem
              /\ timers' = timers
              /\ ~threw'
              /\ lastOrig' = <<Original("send")>>
              /\ hstate'[h] = "sent"]_vars

\* send was called on a handle without RequestState while another request
\* was outstanding
SentWithoutState ==
    /\ lastCall.op = "send"
    /\ xhrMem[lastCall.h] = NoReq
    /\ hstate[lastCall.h] = "sent"
    /\ tasksCount = 1
    /\ \E h \in Handles : xhrMem[h] # NoReq /\ hstate[h] = "sent"

\* the step is the dispatch of a terminal event on handle h, for which the
\* registry holds no RequestState
EventWithoutState(h) ==
    /\ hevents'[h] = hevents[h] + 1
    /\ xhrMem[h] = NoReq

\* C14: a terminal event dispatched on a handle with no RequestState in the
\* registry leaves the registry, the Task Counter, every span and every
\* pending timer unchanged.
EventWithoutStateChangesNothing ==
    [][\A h \in Handles :
          EventWithoutState(h) =>
              /\ xhrMem' = xhrMem
              /\ mem' = mem
              /\ tasksCount' = tasksCount
              /\ spans' = spans
              /\ timers' = timers]_vars

\* the step is the dispatch of an event on some handle
EventDispatched == \E h \in Handles : hevents'[h] = hevents[h] + 1

\* C15: no span is ended inside a terminal event handler: the handler leaves
\* the spans and the Task Counter as they are, and the finalization that runs
\* after the settle delay ends the span with the timestamp captured at the
\* terminal event.
FinalizationDeferred ==
    [][ /\ EventDispatched =>
               /\ \A r \in Reqs : /\ spans'[r].ended = spans[r].ended
                                  /\ spans'[r].finalAttrs = spans[r].finalAttrs
                                  /\ spans'[r].events = spans[r].events
               /\ tasksCount' = tasksCount
        /\ TimerFire =>
               spans'[Head(timers).mem].endTime = Head(timers).endTime
      ]_vars

\* the number of increments the sends of span r's request have performed
IsSendEvent(n) == n = METHOD_SEND
Increments(r) == Len(SelectSeq(spans[r].events, IsSendEvent))

\* C16: the Task Counter is never negative, and the decrements made for a
\* request (one at each end of its span) never outnumber the increments made
\* by the sends of that request.
TaskCounterPaired ==
    /\ tasksCount >= 0
    /\ \A r \in Reqs : spans[r].ended <= Increments(r)

\* the handles whose RequestState the step removes from the registry
Dropped == {h \in Handles : xhrMem[h] # NoReq /\ xhrMem'[h] = NoReq}

\* the step resets a shared cache: the registry loses more than the entry of
\* the handle whose terminal event is handled (a deferred finalization handles
\* none), or the used-entry set or the resource-timing buffer is emptied
ResetStep ==
    \/ Cardinality(Dropped) >= 2
    \/ Len(timers') < Len(timers) /\ Dropped # {}
    \/ usedResources # {} /\ usedResources' = {}
    \/ perf # {} /\ perf' = {}

\* C17: the registry, the used-entry set and the resource-timing buffer are
\* reset only in a step that leaves the Task Counter at zero with
\* clearTimingResources set; with the flag unset they are never reset.
CachesResetOnlyWhenFlagged ==
    [][ResetStep => (tasksCount' = 0 /\ config.clearTimingResources)]_vars

\* the latest call was a send, with body capture, of a body of the given type
\* that JSON.stringify throws on, for the RequestState of span r
UnserializableSent(r, type) ==
    /\ lastCall.op = "send"
    /\ config.networkBodyCapture
    /\ xhrMem[lastCall.h] = r
    /\ lastCall.body.type = type
    /\ lastCall.body.stringify = "throws"

\* C18: with body capture enabled, a send whose non-string body cannot be
\* serialized sets http.request.body to the placeholder that names the type of
\* the body, does not throw, and invokes the original send.
UnserializableBodyGetsPlaceholder ==
    \A r \in Reqs :
        /\ UnserializableSent(r, "object") =>
               spans[r].reqBody = Str("[object of type object]", 23)
        /\ UnserializableSent(r, "bigint") =>
               spans[r].reqBody = Str("[object of type bigint]", 23)
        /\ (UnserializableSent(r, "object") \/ UnserializableSent(r, "bigint")) =>
               /\ ~threw
               /\ lastOrig = <<Original("send")>>
               /\ hstate[lastCall.h] \in {"sent", "done"}

\* a BigInt has just been sent after a circular object was sent for another
\* request: both spans carry their placeholder
PlaceholdersCaptured ==
    \E r1, r2 \in Reqs :
        /\ UnserializableSent(r2, "bigint")
        /\ spans[r2].reqBody = Str("[object of type bigint]", 23)
        /\ hstate[lastCall.h] = "sent"
        /\ spans[r1].reqBody = Str("[object of type object]", 23)

\* C19: with body capture and a blob response, the span of a request is not
\* ended while the decode that the request's own listener started for its
\* response is still pending: the span is ended only once that decode has
\* settled (and, on success, has set http.response.body).
SpanEndFollowsDecode ==
    \A i \in DOMAIN pending :
        hcur[pending[i].h] = pending[i].span => spans[pending[i].span].ended = 0

\* a listener has handled a terminal event for span r's RequestState and no
\* finalization of r is left to run
Finalized(r) ==
    /\ firstStatus[r] # NoStatus
    /\ \A i \in DOMAIN timers : timers[i].mem # r

InitCalled == rum'.calls = rum.calls + 1

\* C21: an init call whose configuration lacks the service name or the API key
\* (omitted or empty) returns nothing, installs neither the XHR nor the error
\* instrumentation, registers no tracer provider, starts no span and hands
\* nothing to the native SDK.
InitWithoutIdentityDoesNothing ==
    [][(/\ InitCalled
        /\ \/ rum'.args.service \in {NoValue, ""}
           \/ rum'.args.apiKey \in {NoValue, ""})
       => /\ rum'.returned = NoValue
          /\ rum'.xhr = rum.xhr
          /\ rum'.errors = rum.errors
          /\ rum'.provider = rum.provider
          /\ rum'.registered = rum.registered
          /\ rum'.started = rum.started
          /\ rum'.appStartSpan = rum.appStartSpan
          /\ rum'.native = rum.native
          /\ rum'.sessions = rum.sessions
          /\ UNCHANGED xhrVars]_vars

\* an init call with a service name and an empty API key was turned down, and
\* nothing is installed
InitWithoutApiKeyRejected ==
    /\ rum.calls > 0
    /\ rum.args.service = "my-rn-app"
    /\ rum.args.apiKey = ""
    /\ rum.returned = NoValue
    /\ rum.log = <<"error", "When sending data to HyperDX apiKey is required.">>
    /\ ~rum.isInitialized
    /\ rum.xhr = <<>>

\* C22: an init call made after a successful one returns nothing and leaves the
\* tracer provider, the installed instrumentation, the global attributes and
\* the diagnostic logger with its log level as the first initialization set them.
FurtherInitLeavesStateIntact ==
    [][(InitCalled /\ rum.isInitialized)
       => /\ rum'.returned = NoValue
          /\ rum'.provider = rum.provider
          /\ rum'.registered = rum.registered
          /\ rum'.xhr = rum.xhr
          /\ rum'.errors = rum.errors
          /\ rum'.globalAttributes = rum.globalAttributes
          /\ rum'.diag = rum.diag]_vars

\* the attribute header hd is to be recorded as, for a request or a response
HeaderAttribute(type, hd) ==
    [name |-> "http." \o type \o ".header." \o hd.key, value |-> <<hd.value>>]

\* C23: with header capture enabled, every line of the response header block
\* becomes the attribute http.response.header.<key> of the request's span, and
\* every setRequestHeader call on an instrumented handle the attribute
\* http.request.header.<key>, the key being the name lower-cased with '-'
\* replaced by '_' and the value the header's complete value as given; with
\* header capture disabled, no span has such an attribute.
HeadersCapturedVerbatim ==
    [][/\ \A h \in Handles, hs \in ResponseHeaders :
            (/\ HeadersReceived(h, hs, 200)
             /\ config.networkHeadersCapture
             /\ xhrMem[h] # NoReq
             /\ xhrMem[h] = hcur[h])
            => \A k \in 1 .. Len(hs) :
                   HeaderAttribute("response", hs[k]) \in spans'[xhrMem[h]].headerAttrs
       /\ \A h \in Handles, hd \in RequestHeaders :
            (/\ SetRequestHeader(h, hd.name, hd.value)
             /\ config.networkHeadersCapture
             /\ xhrMem[h] # NoReq)
            => HeaderAttribute("request", hd) \in spans'[xhrMem[h]].headerAttrs
       /\ ~config.networkHeadersCapture
            => \A r \in Reqs : spans'[r].headerAttrs = {}]_vars

\* the step dispatches to a listener the first event the RequestState held by
\* handle h sees
FirstTerminalEvent(h) ==
    /\ xhrMem[h] # NoReq
    /\ firstStatus[xhrMem[h]] = NoStatus
    /\ firstStatus'[xhrMem[h]] # NoStatus

\* C24: when the handler of the first terminal event of an instrumented request
\* has returned, the registry holds no RequestState for the handle, with body
\* capture and a blob response as in every other configuration.
RegistryReleasedAtTerminalEvent ==
    [][\A h \in Handles : FirstTerminalEvent(h) => xhrMem'[h] = NoReq]_vars

\* a completion listener that the send of request r registered is attached to
\* the handle of r
ListenerAttached(r) ==
    LET h == mem[r].h
    IN  IF config.impl = "class"
        THEN hcur[h] = r /\ listeners[h] # {}
        ELSE \E k \in 1 .. Len(listeners[h]) : listeners[h][k] = r

\* C25: from the first terminal event of a request until its span is ended, no
\* completion listener registered for the request is attached to the handle.
NoListenerOnTerminalPath ==
    \A r \in Reqs :
        (spans[r].started /\ firstStatus[r] # NoStatus /\ spans[r].ended = 0)
        => ~ListenerAttached(r)

\* the RequestState of span r was sent and has since reached a terminal event
\* or been replaced by a re-open of its handle
SentAndOver(r) ==
    /\ spans[r].started
    /\ mem[r].sendStartTime # NoTime
    /\ firstEvent[r] # "none" \/ hcur[mem[r].h] # r

\* C26: once nothing deferred is left to run, the completion teardown of every
\* RequestState that was sent and then reached a terminal event or was evicted
\* by a re-open has been invoked exactly once.
TeardownInvokedOnce ==
    Quiescent => \A r \in Reqs : SentAndOver(r) => mem[r].teardowns = 1

\* the main entry correlation is to find for the RequestState of span r when
\* finalized with performanceEndTime: among the entries its observer
\* collected if there are any, otherwise among those of the global buffer
ExpectedMainRequest(r, performanceEndTime) ==
    GetResource(Href(mem[r].spanUrl), mem[r].sendStartTime, performanceEndTime,
                IF mem[r].entries # <<>> THEN mem[r].entries
                ELSE BufferEntries(perf, 1),
                usedResources).mainRequest

\* C27: the finalization of a sent request correlates with the entries the
\* request's observer collected when there are any and otherwise with the
\* global resource-timing buffer, whether the observer collected nothing or
\* could not be created; the span gets the network timing of the entry found,
\* or none when there is no match, and is ended.
CorrelationFallsBackToBuffer ==
    [][TimerFire =>
          LET r == Head(timers).mem
              expected == ExpectedMainRequest(r, Head(timers).performanceEndTime)
          IN  (mem[r].sendStartTime # NoTime /\ spans[r].ended = 0)
              => /\ spans'[r].network = expected
                 /\ spans'[r].ended = 1]_vars

\* what getResource returns to the finalization that timer t is about to run
Correlated(t) ==
    GetResource(Href(mem[t.mem].spanUrl), mem[t.mem].sendStartTime,
                t.performanceEndTime,
                IF mem[t.mem].entries # <<>> THEN mem[t.mem].entries
                ELSE BufferEntries(perf, 1),
                usedResources)

\* C28: when the correlation of a finalization finds a CORS-preflight entry,
\* exactly one child span is started under the request's span and ended in the
\* same step, while the request's span is not yet ended, and the main and the
\* preflight entry are both in the used set (unless the same finalization then
\* rebuilds the caches); when it finds no main entry, no child span is created
\* and no entry is marked used.
PreflightChildSpan ==
    [][TimerFire =>
          LET t == Head(timers)
              r == t.mem
              found == Correlated(t)
              reset == config.clearTimingResources /\ tasksCount' = 0
          IN  (/\ mem[r].sendStartTime # NoTime
               /\ mem[r].createdResources # 0
               /\ spans[r].ended = 0)
              => /\ found.corsPreFlightRequest # NoEntry
                    => /\ spans'[r].children =
                              <<[entry |-> found.corsPreFlightRequest, ended |-> 1,
                                 parentEnded |-> 0]>>
                       /\ spans'[r].ended = 1
                       /\ \/ reset
                          \/ {found.mainRequest, found.corsPreFlightRequest}
                                 \subseteq usedResources'
                 /\ found.mainRequest = NoEntry
                    => /\ spans'[r].children = <<>>
                       /\ usedResources' \subseteq usedResources]_vars

\* a request was finalized with a preflight entry and a main entry, both kept
\* in the used set
PreflightFound ==
    \E r \in Reqs :
        /\ spans[r].ended = 1
        /\ Len(spans[r].children) = 1
        /\ spans[r].network # NoEntry
        /\ spans[r].children[1].entry # spans[r].network
        /\ {spans[r].network, spans[r].children[1].entry} \subseteq usedResources

\* C29: a request opened with a URL that is not ignored and not yet sent has
\* its RequestState in the registry, whatever other requests were sent,
\* completed and finalized since its open: no cache reset removes the
\* RequestState of a request whose span is not ended.
OpenedRequestKeepsState ==
    \A h \in Handles :
        (hstate[h] = "opened" /\ hcur[h] # NoReq /\ spans[hcur[h]].ended = 0)
        => xhrMem[h] = hcur[h]

\* C30: no setAttribute, addEvent or end call is made on a span that has been
\* ended, for every sequence of requests, handles reused or not.
NoCallOnEndedSpan ==
    \A r \in Reqs : spans[r].ended <= 1 /\ spans[r].late = 0

\* the step invokes the completion teardown of the RequestState of span r
TeardownOf(r) == mem'[r].teardowns = mem[r].teardowns + 1

\* C31: the teardown of one RequestState removes no completion listener that
\* was registered for another RequestState of the same handle and leaves that
\* other state's teardown capability in place: when the handle was re-opened
\* and re-sent during the settle delay, the deferred finalization of the
\* previous request leaves the new request's listeners attached.
TeardownSparesOtherRequests ==
    [][\A r \in Reqs :
          LET h == mem[r].h
              other == xhrMem[h]
          IN  (TeardownOf(r) /\ other # NoReq /\ other # r)
              => /\ mem[other].sendStartTime # NoTime
                    => listeners'[h] = listeners[h]
                 /\ mem'[other].callbackToRemoveEvents
                        = mem[other].callbackToRemoveEvents]_vars

\* the sent requests whose span has not been ended
Outstanding == {r \in Reqs : wasSent[r] /\ spans[r].ended = 0}

\* the RequestState of span r has left the registry without a finalization
\* of it under way
Evicted(r) ==
    /\ xhrMem[mem[r].h] # r
    /\ \A k \in DOMAIN timers : timers[k].mem # r

\* C32: the Task Counter equals the number of requests that have been sent and
\* whose span has not been ended; once every sent request has been finalized
\* or evicted, the Task Counter is zero again.
TaskCounterCountsOutstanding ==
    /\ tasksCount = Cardinality(Outstanding)
    /\ (\A r \in Outstanding : Evicted(r)) => tasksCount = 0

\* the latest open on handle h used a URL that matches an ignore pattern
IgnoredUrlOpened(h) ==
    hstate[h] # "unsent" /\ IsUrlIgnored(hurl[h], config.ignoreUrls)

\* the step is a call of send on handle h, or the dispatch of an event on it
SendOrEventOn(h) ==
    \/ hstate[h] = "opened" /\ lastCall'.op = "send" /\ lastCall'.h = h
       /\ hstate'[h] # "opened"
    \/ hevents'[h] = hevents[h] + 1

\* C33: when the latest open on a handle used an ignored URL, the send and the
\* events that follow on the handle are uninstrumented, also when an earlier
\* open on the handle created a RequestState: no event or attribute is added
\* to a span, no span is ended and no finalization scheduled, the Task Counter
\* is unchanged and no trace header is injected.
IgnoredRequestUninstrumented ==
    [][\A h \in Handles :
          (IgnoredUrlOpened(h) /\ SendOrEventOn(h))
          => /\ spans' = spans
             /\ timers' = timers
             /\ pending' = pending
             /\ tasksCount' = tasksCount
             /\ reqHeaders'[h] = reqHeaders[h]]_vars

\* the spans whose RequestState the step removes from the registry without
\* scheduling its deferred finalization: by a re-open of the handle, by a
\* cache reset, or by a finalization within the step
Released ==
    {r \in Reqs : /\ \E h \in Handles : xhrMem[h] = r /\ xhrMem'[h] # r
                  /\ \A k \in DOMAIN timers' : timers'[k].mem # r}

\* C34: every span started by open is ended: in the step in which a
\* RequestState leaves the registry, by a re-open of its handle or by a cache
\* reset as by a finalization, its span is ended (or its deferred finalization
\* is scheduled), and the Task Counter increment of every sent request among
\* them is given back.
EvictedSpanIsEnded ==
    [][ /\ \A r \in Released : spans'[r].ended = 1
        /\ Released # {} =>
               tasksCount' = tasksCount
                   - Cardinality({r \in Released : mem[r].sendStartTime # NoTime})
      ]_vars

\* the step settles a pending blob decode
DecodeSettles == Len(pending') = Len(pending) - 1

\* C35: a span ended when a blob decode settles is the span of a request whose
\* response has arrived, ended with the status of that request's terminal
\* event: a decode that settles after the handle was re-opened for a new
\* request does not end the new request's span.
DecodeEndsItsOwnSpan ==
    [][DecodeSettles
       => \A r \in Reqs :
              spans'[r].ended # spans[r].ended
              => /\ firstStatus[r] # NoStatus
                 /\ spans'[r].status = firstStatus[r]]_vars

\* the name a terminal event of the given kind is to be recorded under (a load
\* with a status of 299 or more counts as an error)
RecordedName(kind, status) ==
    CASE kind = "load" -> LoadName(status)
      [] kind = "error" -> EVENT_ERROR
      [] kind = "abort" -> EVENT_ABORT
      [] kind = "timeout" -> EVENT_TIMEOUT
      [] OTHER -> EVENT_READY_STATE_CHANGE

\* C36: every ended request span carries its lifecycle events in the order
\* open, send, then exactly one terminal event, named after the first terminal
\* event the transport delivered for the request; no span carries two terminal
\* events.
LifecycleEventsInOrder ==
    \A r \in Reqs :
        /\ Len(TerminalEvents(r)) <= 1
        /\ spans[r].ended >= 1 =>
               /\ firstEvent[r] # "none"
               /\ spans[r].events =
                      <<METHOD_OPEN, METHOD_SEND,
                        RecordedName(firstEvent[r], firstStatus[r])>>

\* the times of the finishAppStart calls made before initializeNativeSdk
\* resolved
FinishedBeforeResolve ==
    { rum.finished[k] : k \in { j \in DOMAIN rum.finished :
                                    rum.finished[j] < rum.resolved } }

\* C37: with app-start tracking enabled and a successful init, the AppStart
\* span is never ended twice, and once it is started and finishAppStart has
\* been called it has been ended exactly once, whether the calls came before
\* or after the native SDK initialization resolved and however many there
\* were: with a time recorded by a call made before the resolution when there
\* was one, otherwise at the first call after it.
AppStartSpanEndedOnce ==
    /\ Len(rum.appStartEnds) <= 1
    /\ (rum.appStartSpan # NoValue /\ rum.finished # <<>>)
       => /\ Len(rum.appStartEnds) = 1
          /\ IF FinishedBeforeResolve # {}
             THEN rum.appStartEnds[1] \in FinishedBeforeResolve
             ELSE rum.appStartEnds[1] = rum.finished[1]

\* finishAppStart was called before the native SDK initialization resolved and
\* again after it, and the AppStart span was ended with the time of the first
\* call
AppStartEndedWithEarlierTime ==
    /\ Len(rum.finished) = 2
    /\ rum.finished[1] < rum.resolved
    /\ rum.resolved < rum.finished[2]
    /\ rum.appStartSpan = "ended"
    /\ rum.appStartEnds = <<rum.finished[1]>>

\* the configuration passes the validation of init: a service name, an API
\* key, and a beacon endpoint that is left out, uses https or is allowed to be
\* insecure
ValidConfiguration(o) ==
    /\ o.service \notin {NoValue, ""}
    /\ o.apiKey \notin {NoValue, ""}
    /\ \/ o.beaconEndpoint \in {NoValue, ""}
       \/ StartsWith(o.beaconEndpoint, "https")
       \/ o.allowInsecureBeacon

\* the library is initialized and its instrumentation installed once
InstalledOnce ==
    /\ rum'.isInitialized
    /\ Len(rum'.xhr) = 1
    /\ rum'.errors = 1
    /\ rum'.registered = 1
    /\ Len(rum'.native) + rum'.sessions = 1

\* the step is a call of init with configuration o, made by the application
\* or due from a render of OtelWrapper with that configuration
InitOrRender(o) ==
    \/ rum'.wrapper = rum.wrapper /\ InitCalled /\ Init(o)
    \/ rum'.wrapper.renders = rum.wrapper.renders + 1 /\ OtelWrapper(o)

\* C38: an init call that aborts (no service name, no API key, or a beacon
\* endpoint that is not https and not allowed to be) does not mark the library
\* as initialized; an init with a valid configuration made while the library
\* is not initialized succeeds and leaves the instrumentation installed
\* exactly once, whether init is called directly or a render of OtelWrapper is
\* to make the call.
AbortedInitCanBeRetried ==
    [][\A o \in InitOptions :
          /\ (InitOrRender(o) /\ ~ValidConfiguration(o))
             => rum'.isInitialized = rum.isInitialized
          /\ (InitOrRender(o) /\ ValidConfiguration(o) /\ ~rum.isInitialized)
             => InstalledOnce]_vars

====
